---- MODULE Spec2Model ----
(***************************************************************************)
(* Model of the observability subsystem (PipelineObserver,                 *)
(* ObservedPipeline) and of the pipeline drivers (ingestion, transform,    *)
(* load, orchestrator) of the Uganda health ETL pipeline.                  *)
(*                                                                         *)
(* The persisted tables metadata.pipeline_runs, metadata.data_quality_     *)
(* metrics, metadata.field_lineage and metadata.source_files are sequences *)
(* of rows in insertion order; a serial / generated key is the row's       *)
(* position.  Python's None and SQL NULL are the empty tuple, a present    *)
(* value v is the one-element tuple <<v>>.                                 *)
(***************************************************************************)
EXTENDS Integers, Sequences, FiniteSets, TLC

VARIABLES
    runs,          \* metadata.pipeline_runs
    quality,       \* metadata.data_quality_metrics
    lineage,       \* metadata.field_lineage
    obsRunId,      \* PipelineObserver.run_id of each observer (0 is None)
    obsScoped,     \* ObservedPipeline wrapping each observer: none/entered/exited
    lastCall,      \* the call made last and the exception it raised to its caller
    nCalls,        \* number of calls made so far
    source_files,  \* metadata.source_files
    disk,          \* the file system: the bytes of each path, None when absent
    now,           \* the database clock read by NOW()
    lastReg,       \* the registration made last and the file id it returned
    nRegs,         \* number of registrations made so far
    pc,            \* where run_full_pipeline and the stage it runs stand
    excel_files,   \* ingestion main: the workbooks found in data/source
    fileIdx,       \* ingestion main: position of the for loop over excel_files
    observer,      \* run_id of the observer bound by the current with block
    sheet_names,   \* process_excel_file: number of sheets of the open workbook
    sheetIdx,      \* process_excel_file: position of the for loop over sheets
    total_rows,    \* process_excel_file: rows extracted so far
    files_processed, \* ingestion main
    files_failed,  \* ingestion main
    caught,        \* the exception in flight or caught, None when there is none
    raw_dir,       \* the CSVs in data/raw, in the order glob lists them
    clean_dir,     \* the CSVs in data/clean, in the order glob lists them
    pathIdx,       \* transform main, load main: position of the for loop
    total_records, \* load main
    records_loaded, \* load main
    log,           \* what the stages logged about each unit of work
    exit_code,     \* what run_full_pipeline returned, None while it runs
    tpc,           \* where transform main and the process_file it calls stand
    path,          \* process_file: the raw CSV being processed
    df,            \* process_file: the frame pd.read_csv returned
    df2,           \* process_file: the frame detect_header_and_clean returned
    long,          \* process_file: the frame unpivot_years returned
    cleaned,       \* process_file: the frame it returns, None when it raised
    vpc,           \* where the calls made on a quality validator stand
    vdf,           \* the frame handed to the validator
    vcall,         \* the entry point called and its critical_columns
    vobserver,     \* run_id of the validator's observer, 0 without observer
    results,       \* DataQualityValidator.results
    summary,       \* the summary the entry point returned
    got,           \* what get_summary returned, None before it is called
    txns,          \* the register_source_file call each concurrent run is in
    stopped        \* the observers whose process has stopped

obsVars == <<runs, quality, lineage, obsRunId, obsScoped, lastCall, nCalls>>
regVars == <<source_files, disk, now, lastReg, nRegs>>
pipeVars == <<pc, excel_files, fileIdx, observer, sheet_names, sheetIdx,
              total_rows, files_processed, files_failed, caught, raw_dir,
              clean_dir, pathIdx, total_records, records_loaded, log, exit_code>>
trVars == <<tpc, path, df, df2, long, cleaned>>
dqVars == <<vpc, vdf, vcall, vobserver, results, summary, got>>
raceVars == <<txns>>
crashVars == <<stopped>>
fnVars == <<trVars, dqVars, raceVars, crashVars>>
vars == <<obsVars, regVars, pipeVars, fnVars>>

----------------------------------------------------------------------------
\* Bounds of the model.
MaxCalls == 4
MaxRuns == 2
MaxQuality == 2
MaxLineage == 2
MaxRegs == 4
MaxSheets == 2

None == <<>>
Some(v) == <<v>>

\* two observers: enough for one observer to act between two calls of another
Observers == {1, 2}

\* exceptions the wrapped work of a scoped session may raise: type and str()
Exceptions ==
    { [type |-> "ValueError", msg |-> "bad sheet"],
      [type |-> "RuntimeError", msg |-> ""] }

Terminal == {"success", "failed", "skipped"}

\* Arguments callers pass to complete_run.
CompleteArgs ==
    { [status |-> "success", records_input |-> None, records_processed |-> None,
       records_loaded |-> None, records_rejected |-> None,
       error_message |-> None, error_details |-> None],
      [status |-> "success", records_input |-> Some(3), records_processed |-> Some(3),
       records_loaded |-> Some(3), records_rejected |-> None,
       error_message |-> None, error_details |-> None],
      [status |-> "failed", records_input |-> Some(0), records_processed |-> Some(0),
       records_loaded |-> Some(0), records_rejected |-> None,
       error_message |-> Some("bad sheet"), error_details |-> None],
      [status |-> "skipped", records_input |-> None, records_processed |-> None,
       records_loaded |-> None, records_rejected |-> None,
       error_message |-> None, error_details |-> None] }

\* Arguments callers pass to log_quality_check.
QualityArgs ==
    { [check_name |-> "completeness_value", check_category |-> "completeness",
       passed |-> TRUE, metric_value |-> Some(1), threshold_value |-> Some(1)],
      [check_name |-> "validity_range", check_category |-> "validity",
       passed |-> FALSE, metric_value |-> None, threshold_value |-> None] }

\* Arguments callers pass to track_lineage.
LineageArgs ==
    { [target_table |-> "raw_csv", target_column |-> "all_columns",
       source_file |-> "a.xlsx", source_sheet |-> Some("s1"),
       source_column |-> "all_columns", transformation_type |-> "direct_copy"],
      [target_table |-> "fact_indicator_values", target_column |-> "value",
       source_file |-> "a_clean.csv", source_sheet |-> None,
       source_column |-> "value", transformation_type |-> "direct_copy"] }

----------------------------------------------------------------------------
\* PipelineObserver: the rows each method writes.

\* start_run's INSERT ... VALUES (:name, :stage, :file, 'running', :meta)
StartRunRows(rs, name, stage, file) ==
    Append(rs, [pipeline_name |-> name, pipeline_stage |-> stage,
                source_file |-> file, status |-> "running",
                records_input |-> None, records_processed |-> None,
                records_loaded |-> None, records_rejected |-> None,
                error_message |-> None, error_details |-> None])

\* mutant: the guard of complete_run is missing, the UPDATE matches no row
CompleteRunRaises_Never(rid) == FALSE

\* complete_run raises ValueError when the observer has no run id
CompleteRunRaises(rid) == rid = 0

\* mutant: the UPDATE has no WHERE run_id = :run_id, it completes every run
\* that is still running
CompleteRunRows_EveryRunning(rs, rid, a) ==
    [i \in DOMAIN rs |->
        IF rs[i].status = "running"
        THEN [rs[i] EXCEPT !.status = a.status,
                           !.records_input = a.records_input,
                           !.records_processed = a.records_processed,
                           !.records_loaded = a.records_loaded,
                           !.records_rejected = a.records_rejected,
                           !.error_message = a.error_message,
                           !.error_details = a.error_details]
        ELSE rs[i]]

\* complete_run's UPDATE ... WHERE run_id = :run_id: every column of the call,
\* given or defaulted, is written
CompleteRunRows(rs, rid, a) ==
    [i \in DOMAIN rs |->
        IF i = rid
        THEN [rs[i] EXCEPT !.status = a.status,
                           !.records_input = a.records_input,
                           !.records_processed = a.records_processed,
                           !.records_loaded = a.records_loaded,
                           !.records_rejected = a.records_rejected,
                           !.error_message = a.error_message,
                           !.error_details = a.error_details]
        ELSE rs[i]]

\* log_quality_check and track_lineage raise ValueError when the observer has
\* no run id
NoActiveRun(rid) == rid = 0

\* log_quality_check's INSERT
LogQualityRows(qs, rid, q) ==
    Append(qs, [run_id |-> rid, check_name |-> q.check_name,
                check_category |-> q.check_category, passed |-> q.passed,
                metric_value |-> q.metric_value,
                threshold_value |-> q.threshold_value])

\* mutant: a lineage fact already recorded for the run is not recorded again
TrackLineageRows_Dedup(ls, rid, l) ==
    LET row == [run_id |-> rid, target_table |-> l.target_table,
                target_column |-> l.target_column, source_file |-> l.source_file,
                source_sheet |-> l.source_sheet, source_column |-> l.source_column,
                transformation_type |-> l.transformation_type]
    IN IF \E i \in DOMAIN ls : ls[i] = row THEN ls ELSE Append(ls, row)

\* track_lineage's INSERT
TrackLineageRows(ls, rid, l) ==
    Append(ls, [run_id |-> rid, target_table |-> l.target_table,
                target_column |-> l.target_column, source_file |-> l.source_file,
                source_sheet |-> l.source_sheet, source_column |-> l.source_column,
                transformation_type |-> l.transformation_type])

\* mutant: __exit__ completes the run as a success whatever the block did
ExitArgs_AlwaysSuccess(exc) ==
    [status |-> "success", records_input |-> None, records_processed |-> None,
     records_loaded |-> None, records_rejected |-> None,
     error_message |-> None, error_details |-> None]

\* ObservedPipeline.__exit__: the arguments of its complete_run
ExitArgs(exc) ==
    IF exc = None
    THEN [status |-> "success", records_input |-> None, records_processed |-> None,
          records_loaded |-> None, records_rejected |-> None,
          error_message |-> None, error_details |-> None]
    ELSE [status |-> "failed", records_input |-> None, records_processed |-> None,
          records_loaded |-> None, records_rejected |-> None,
          error_message |-> Some(exc[1].msg),
          error_details |-> Some([exception_type |-> exc[1].type])]

\* mutant: __exit__ returns True, the exception of the block is suppressed
ExitPropagates_Suppressed(exc) == None

\* ObservedPipeline.__exit__ returns False: the exception of the block goes on
\* to the caller
ExitPropagates(exc) == exc

----------------------------------------------------------------------------
\* the bookkeeping of one call: what was called on which observer, the exception
\* the wrapped block ended with (scoped sessions), the exception the caller sees
Called(op, o, exc, raised) ==
    /\ lastCall' = [op |-> op, obs |-> o, exc |-> exc, raised |-> raised]
    /\ nCalls' = nCalls + 1

\* PipelineObserver.start_run
StartRun(o, stage, file) ==
    /\ nCalls < MaxCalls
    /\ Len(runs) < MaxRuns
    /\ runs' = StartRunRows(runs, "uganda_health_etl", stage, file)
    /\ obsRunId' = [obsRunId EXCEPT ![o] = Len(runs) + 1]
    /\ Called("start_run", o, None, None)
    /\ UNCHANGED <<fnVars, quality, lineage, obsScoped, regVars, pipeVars>>

\* PipelineObserver.complete_run
CompleteRun(o, a) ==
    /\ nCalls < MaxCalls
    /\ IF CompleteRunRaises(obsRunId[o])
       THEN /\ Called("complete_run", o, None, Some("ValueError"))
            /\ UNCHANGED runs
       ELSE /\ runs' = CompleteRunRows(runs, obsRunId[o], a)
            /\ Called("complete_run", o, None, None)
    /\ UNCHANGED <<fnVars, quality, lineage, obsRunId, obsScoped, regVars, pipeVars>>

\* PipelineObserver.log_quality_check
LogQualityCheck(o, q) ==
    /\ nCalls < MaxCalls
    /\ IF NoActiveRun(obsRunId[o])
       THEN /\ Called("log_quality_check", o, None, Some("ValueError"))
            /\ UNCHANGED quality
       ELSE /\ Len(quality) < MaxQuality
            /\ quality' = LogQualityRows(quality, obsRunId[o], q)
            /\ Called("log_quality_check", o, None, None)
    /\ UNCHANGED <<fnVars, runs, lineage, obsRunId, obsScoped, regVars, pipeVars>>

\* PipelineObserver.track_lineage
TrackLineage(o, l) ==
    /\ nCalls < MaxCalls
    /\ IF NoActiveRun(obsRunId[o])
       THEN /\ Called("track_lineage", o, None, Some("ValueError"))
            /\ UNCHANGED lineage
       ELSE /\ Len(lineage) < MaxLineage
            /\ lineage' = TrackLineageRows(lineage, obsRunId[o], l)
            /\ Called("track_lineage", o, None, None)
    /\ UNCHANGED <<fnVars, runs, quality, obsRunId, obsScoped, regVars, pipeVars>>

\* ObservedPipeline.__enter__ on the fresh observer its constructor made
Enter(o, stage, file) ==
    /\ nCalls < MaxCalls
    /\ Len(runs) < MaxRuns
    /\ obsScoped[o] = "none"
    /\ obsRunId[o] = 0
    /\ runs' = StartRunRows(runs, "uganda_health_etl", stage, file)
    /\ obsRunId' = [obsRunId EXCEPT ![o] = Len(runs) + 1]
    /\ obsScoped' = [obsScoped EXCEPT ![o] = "entered"]
    /\ Called("enter", o, None, None)
    /\ UNCHANGED <<fnVars, quality, lineage, regVars, pipeVars>>

\* ObservedPipeline.__exit__ when the block ended with exception exc (or None)
Exit(o, exc) ==
    /\ nCalls < MaxCalls
    /\ obsScoped[o] = "entered"
    /\ runs' = CompleteRunRows(runs, obsRunId[o], ExitArgs(exc))
    /\ obsScoped' = [obsScoped EXCEPT ![o] = "exited"]
    /\ Called("exit", o, exc, ExitPropagates(exc))
    /\ UNCHANGED <<fnVars, quality, lineage, obsRunId, regVars, pipeVars>>

\* the process that holds the observer stops between two of its calls (it is
\* killed, the machine goes down): nothing runs any more, not even __exit__,
\* and every transaction of the calls it made is committed
Stop(o) ==
    /\ o \notin stopped
    /\ stopped' = stopped \cup {o}
    /\ UNCHANGED <<obsVars, regVars, pipeVars, trVars, dqVars, raceVars>>

RunTargets ==
    { [stage |-> "ingestion", file |-> Some("a.xlsx")],
      [stage |-> "load", file |-> None] }

----------------------------------------------------------------------------
\* SourceFileRegistry: PipelineObserver.register_source_file.

Paths == {"data/source/a.xlsx", "data/source/b.xlsx"}

\* the file contents of the model: the empty file and two files of one byte
Contents == {<<>>, <<0>>, <<1>>}

\* hashlib.md5 of the contents of the model
Md5Hex(bytes) ==
    CASE bytes = <<>> -> "d41d8cd98f00b204e9800998ecf8427e"
      [] bytes = <<0>> -> "93b885adfe0da089cdf634904fd59f71"
      [] bytes = <<1>> -> "55a54008ad1ba589aa210d2629c1df41"

\* _compute_file_hash
ComputeFileHash(file) ==
    IF file = None THEN "file_not_found" ELSE Md5Hex(file[1])

\* path.stat().st_size if path.exists() else None
FileSize(file) == IF file = None THEN None ELSE Some(Len(file[1]))

EmptyDict == [k \in {} |-> k]

\* Arguments callers pass to register_source_file besides the path.
RegArgs ==
    { [sheet_count |-> None, row_count |-> None, column_count |-> None,
       schema_fingerprint |-> None],
      [sheet_count |-> Some(2), row_count |-> None, column_count |-> None,
       schema_fingerprint |->
           Some([sheet_names |-> <<"s1", "s2">>, sheet_count |-> 2])],
      [sheet_count |-> Some(1), row_count |-> Some(5), column_count |-> Some(3),
       schema_fingerprint |-> Some(EmptyDict)] }

\* json.dumps(schema_fingerprint) if schema_fingerprint else None: an absent
\* and an empty dict are both stored as NULL
SchemaColumn(schema) ==
    IF schema = None \/ schema[1] = EmptyDict
    THEN None
    ELSE Some(<<"json", schema[1]>>)

\* processing_count of a freshly inserted row (the column's default)
ProcessingCountDefault == 1

\* mutant: the lookup finds nothing, every registration inserts
Lookup_Never(sf, p) == 0

\* SELECT file_id, file_hash FROM metadata.source_files WHERE file_path = :path,
\* fetchone(): the position of the first row of the path, 0 when there is none
Lookup(sf, p) ==
    IF \E i \in DOMAIN sf : sf[i].file_path = p
    THEN CHOOSE i \in DOMAIN sf :
            /\ sf[i].file_path = p
            /\ \A j \in DOMAIN sf : sf[j].file_path = p => i <= j
    ELSE 0

\* mutant: the unchanged branch refreshes the counts and the schema as well
UnchangedUpdate_Refreshes(e, h, size, a, t) ==
    [e EXCEPT !.last_processed = Some(t),
              !.processing_count = @ + 1,
              !.schema_fingerprint = SchemaColumn(a.schema_fingerprint),
              !.row_count = a.row_count,
              !.column_count = a.column_count,
              !.sheet_count = a.sheet_count]

\* the UPDATE of the branch "file unchanged"
UnchangedUpdate(e, h, size, a, t) ==
    [e EXCEPT !.last_processed = Some(t),
              !.processing_count = @ + 1]

\* mutant: the changed branch forgets the schema snapshot and the byte size
ChangedUpdate_Partial(e, h, size, a, t) ==
    [e EXCEPT !.file_hash = h,
              !.last_processed = Some(t),
              !.processing_count = @ + 1,
              !.row_count = a.row_count,
              !.column_count = a.column_count,
              !.sheet_count = a.sheet_count]

\* the UPDATE of the branch "file changed"
ChangedUpdate(e, h, size, a, t) ==
    [e EXCEPT !.file_hash = h,
              !.file_size_bytes = size,
              !.last_processed = Some(t),
              !.processing_count = @ + 1,
              !.schema_fingerprint = SchemaColumn(a.schema_fingerprint),
              !.row_count = a.row_count,
              !.column_count = a.column_count,
              !.sheet_count = a.sheet_count]

\* the INSERT of the branch "new file"; file_id is the serial key
NewEntry(id, p, h, size, a) ==
    [file_id |-> id, file_path |-> p, file_hash |-> h, file_size_bytes |-> size,
     sheet_count |-> a.sheet_count, row_count |-> a.row_count,
     column_count |-> a.column_count,
     schema_fingerprint |-> SchemaColumn(a.schema_fingerprint),
     status |-> "processed", processing_count |-> ProcessingCountDefault,
     last_processed |-> None]

\* the table after register_source_file(p, ...) run at time t on a path whose
\* file is `file`
RegisterRows(sf, p, file, a, t) ==
    LET h == ComputeFileHash(file)
        size == FileSize(file)
        i == Lookup(sf, p)
    IN IF i # 0
       THEN [sf EXCEPT ![i] = IF sf[i].file_hash = h
                              THEN UnchangedUpdate(@, h, size, a, t)
                              ELSE ChangedUpdate(@, h, size, a, t)]
       ELSE Append(sf, NewEntry(Len(sf) + 1, p, h, size, a))

\* the file id register_source_file returns
RegisterReturn(sf, p) ==
    IF Lookup(sf, p) # 0 THEN sf[Lookup(sf, p)].file_id ELSE Len(sf) + 1

\* PipelineObserver.register_source_file, the whole transaction
RegisterSourceFile(p, a) ==
    /\ nRegs < MaxRegs
    /\ source_files' = RegisterRows(source_files, p, disk[p], a, now + 1)
    /\ lastReg' = [path |-> p, args |-> a,
                   file_id |-> RegisterReturn(source_files, p)]
    /\ now' = now + 1
    /\ nRegs' = nRegs + 1
    /\ UNCHANGED <<fnVars, disk, obsVars, pipeVars>>

\* the environment writes, replaces or removes a source file
WriteFile(p, file) ==
    /\ disk[p] # file
    /\ disk' = [disk EXCEPT ![p] = file]
    /\ UNCHANGED <<fnVars, source_files, now, lastReg, nRegs, obsVars, pipeVars>>

Files == {None} \cup {Some(c) : c \in Contents}


\* Concurrent use of the registry: two runs, each in a register_source_file
\* call of its own.  A call reads the file (lines 270-272), then, inside its
\* transaction, looks the path up (lines 276-282) and writes (lines 284-338).
\* The steps of the two calls interleave; a statement sees what is committed.

\* bound on the registrations made before the concurrent ones start
MaxSetup == 1

Registrants == {1, 2}

\* the path the concurrent runs register
RacePath == "data/source/a.xlsx"

\* a run that has not called yet.  before: the catalog entry of the path
\* when the first of the concurrent calls started, for the properties
Idle ==
    [pc |-> "idle", path |-> "", args |-> None, file_hash |-> "",
     file_size |-> None, existing |-> None, file_id |-> 0, before |-> None]

\* a registration made on its own, before any concurrent call has started
RaceSetup(p, a) ==
    /\ nRegs < MaxSetup
    /\ \A r \in Registrants : txns[r].pc = "idle"
    /\ RegisterSourceFile(p, a)

\* lines 270-272: file_hash and file_size are computed before the transaction
RaceHash(r, p, a) ==
    /\ txns[r].pc = "idle"
    /\ txns' = [txns EXCEPT ![r] =
                   [Idle EXCEPT !.pc = "hashed", !.path = p, !.args = Some(a),
                                !.file_hash = ComputeFileHash(disk[p]),
                                !.file_size = FileSize(disk[p]),
                                !.before =
                                    IF \E q \in Registrants : txns[q].pc # "idle"
                                    THEN LET q == CHOOSE q \in Registrants :
                                                     txns[q].pc # "idle"
                                         IN  txns[q].before
                                    ELSE IF Lookup(source_files, p) = 0 THEN None
                                    ELSE Some(source_files[Lookup(source_files, p)])]]
    /\ UNCHANGED <<regVars, obsVars, pipeVars, trVars, dqVars, crashVars>>

\* lines 276-282: SELECT file_id, file_hash ... WHERE file_path = :path
RaceSelect(r) ==
    /\ txns[r].pc = "hashed"
    /\ LET i == Lookup(source_files, txns[r].path)
       IN  txns' = [txns EXCEPT
                       ![r].pc = "selected",
                       ![r].existing =
                           IF i = 0 THEN None
                           ELSE Some([file_id |-> source_files[i].file_id,
                                      file_hash |-> source_files[i].file_hash])]
    /\ UNCHANGED <<regVars, obsVars, pipeVars, trVars, dqVars, crashVars>>

\* lines 284-318: the UPDATE ... WHERE file_id = :id of the branch chosen from
\* what the SELECT returned, applied to the row as it is now, and the commit
RaceUpdate(r) ==
    /\ txns[r].pc = "selected"
    /\ txns[r].existing # None
    /\ LET t == txns[r]
           id == t.existing[1].file_id
       IN  /\ source_files' =
                 [i \in DOMAIN source_files |->
                     IF source_files[i].file_id # id THEN source_files[i]
                     ELSE IF t.existing[1].file_hash = t.file_hash
                     THEN UnchangedUpdate(source_files[i], t.file_hash,
                                          t.file_size, t.args[1], now + 1)
                     ELSE ChangedUpdate(source_files[i], t.file_hash,
                                        t.file_size, t.args[1], now + 1)]
           /\ txns' = [txns EXCEPT ![r].pc = "returned", ![r].file_id = id]
    /\ now' = now + 1
    /\ UNCHANGED <<disk, lastReg, nRegs, obsVars, pipeVars, trVars, dqVars,
                   crashVars>>

\* lines 319-338: the INSERT of the branch "new file" and the commit.  The
\* definition of metadata.source_files is not part of the sources: when a row
\* of the path has been committed since the SELECT, the INSERT adds a second
\* row (file_path is not unique) or raises IntegrityError (it is)
RaceInsert(r) ==
    /\ txns[r].pc = "selected"
    /\ txns[r].existing = None
    /\ LET t == txns[r]
       IN  \/ /\ source_files' =
                    Append(source_files,
                           NewEntry(Len(source_files) + 1, t.path, t.file_hash,
                                    t.file_size, t.args[1]))
              /\ txns' = [txns EXCEPT ![r].pc = "returned",
                                      ![r].file_id = Len(source_files) + 1]
           \/ /\ Lookup(source_files, t.path) # 0
              /\ txns' = [txns EXCEPT ![r].pc = "raised"]
              /\ UNCHANGED source_files
    /\ now' = now + 1
    /\ UNCHANGED <<disk, lastReg, nRegs, obsVars, pipeVars, trVars, dqVars,
                   crashVars>>

----------------------------------------------------------------------------
\* The transform engine (transform/clean_and_unpivot.py).
\*
\* A Python str is the sequence of its characters.  A missing cell (NaN) is
\* NaN; an integer column label of a header=None frame is IntLabel(i); the
\* pandas Series that row[label] returns when several columns carry the label
\* is SeriesOf(cells).  A frame is a record of its column labels and its rows,
\* a row the sequence of its cells in column order.

\* bounds on the raw CSVs the transform is run on
MaxTitleRows == 10
MaxBodyRows == 2

\* range(min(10, len(df))): the rows header detection looks at
ScanRows == 10

Digits == {"0", "1", "2", "3", "4", "5", "6", "7", "8", "9"}
Whitespace == {" ", "\t", "\n"}

DigitChar(d) == <<"0", "1", "2", "3", "4", "5", "6", "7", "8", "9">>[d + 1]

\* str(i) of a non-negative int
RECURSIVE StrOfInt(_)
StrOfInt(i) ==
    IF i < 10 THEN <<DigitChar(i)>>
    ELSE StrOfInt(i \div 10) \o <<DigitChar(i % 10)>>

\* int(s) of a string of digits
RECURSIVE IntOfStr(_)
IntOfStr(s) ==
    IF s = <<>> THEN 0
    ELSE 10 * IntOfStr(SubSeq(s, 1, Len(s) - 1))
         + (CHOOSE d \in 0..9 : DigitChar(d) = s[Len(s)])

NaN == <<"NaN">>

IntLabel(i) == <<"int">> \o StrOfInt(i)

RECURSIVE JoinLines(_)
JoinLines(cells) ==
    IF cells = <<>> THEN <<>>
    ELSE Head(cells) \o <<"\n">> \o JoinLines(Tail(cells))

SeriesOf(cells) == <<"Series">> \o JoinLines(cells)

\* isinstance(x, str)
IsStr(x) == x = <<>> \/ x[1] \notin {"NaN", "int", "Series"}

\* str(x), astype(str)
Str(x) ==
    IF IsStr(x) THEN x
    ELSE IF x = NaN THEN <<"n", "a", "n">>
    ELSE IF x[1] = "int" THEN Tail(x)
    ELSE Tail(x) \o <<"d", "t", "y", "p", "e">>

RECURSIVE LStrip(_)
LStrip(s) ==
    IF s # <<>> /\ Head(s) \in Whitespace THEN LStrip(Tail(s)) ELSE s

RECURSIVE RStrip(_)
RStrip(s) ==
    IF s # <<>> /\ s[Len(s)] \in Whitespace
    THEN RStrip(SubSeq(s, 1, Len(s) - 1)) ELSE s

\* str.strip()
Strip(s) == RStrip(LStrip(s))

\* any(ch.isdigit() for ch in s)
HasDigit(s) == \E i \in DOMAIN s : s[i] \in Digits

\* "/" in s
HasSlash(s) == \E i \in DOMAIN s : s[i] = "/"

\* str.isdigit()
IsDigit(s) == s # <<>> /\ \A i \in DOMAIN s : s[i] \in Digits

\* str.replace(",", "")
RECURSIVE RemoveCommas(_)
RemoveCommas(s) ==
    IF s = <<>> THEN <<>>
    ELSE IF Head(s) = "," THEN RemoveCommas(Tail(s))
    ELSE <<Head(s)>> \o RemoveCommas(Tail(s))

\* the positions of a set in increasing order
RECURSIVE Sorted(_)
Sorted(S) ==
    IF S = {} THEN <<>>
    ELSE LET m == CHOOSE x \in S : \A y \in S : x <= y
         IN  <<m>> \o Sorted(S \ {m})

Range(s) == {s[i] : i \in DOMAIN s}

Min(a, b) == IF a <= b THEN a ELSE b

\* the title row above a header
TitleRow == << <<"T">>, NaN, NaN >>

\* the rows a raw CSV is made of: a title, a header with two period labels, a
\* header that repeats a label, a row with one period label, two data rows,
\* an empty row
RowKinds ==
    { TitleRow,
      << <<" ", "I">>, <<"1", "/", "2">>, <<"1", "/", "3">> >>,
      << <<"1", "/", "2">>, <<"1", "/", "2">>, <<"1", "/", "2", "_", "1">> >>,
      << <<"I">>, <<"1", "/", "2">>, <<"x">> >>,
      << <<"a", " ">>, <<"1", ",", "2", "3", "4">>, <<"N", "/", "A">> >>,
      << <<"b">>, NaN, <<" ", "7">> >>,
      <<NaN, NaN, NaN>> }

\* the first line of a raw CSV: the integer column labels that the ingestion
\* stage's df.to_csv(index=False) writes for a header=None frame, or the
\* header of a CSV that was put into data/raw by hand
FirstLines ==
    { << <<"0">>, <<"1">>, <<"2">> >>,
      << <<"I">>, <<"L">>, <<"7">> >>,
      << <<"I">>, <<"1", "/", "2">>, <<"1", "/", "3">> >> }

RECURSIVE Repeat(_, _)
Repeat(x, n) == IF n = 0 THEN <<>> ELSE <<x>> \o Repeat(x, n - 1)

\* a raw CSV: whether its bytes decode as UTF-8, and its lines
RawFiles ==
    { [utf8 |-> u, lines |-> <<f>> \o Repeat(TitleRow, t) \o b] :
        u \in BOOLEAN, f \in FirstLines, t \in 0..MaxTitleRows,
        b \in UNION {[1..n -> RowKinds] : n \in 0..MaxBodyRows} }

\* the column names pd.read_csv makes of the header line: an empty field is
\* named "Unnamed: i", a repeated name gets the suffix ".k"
ReadCsvNames(line) ==
    [i \in DOMAIN line |->
        IF line[i] = NaN
        THEN <<"U", "n", "n", "a", "m", "e", "d", ":", " ">> \o StrOfInt(i - 1)
        ELSE LET k == Cardinality({j \in 1..(i - 1) : line[j] = line[i]})
             IN  IF k = 0 THEN line[i]
                 ELSE line[i] \o <<".">> \o StrOfInt(k)]

\* process_file, lines 91-94: pd.read_csv(path) takes the first line as the
\* header; when it raises (the bytes are not UTF-8) the file is read again
\* with header=None and latin1, and the columns are 0..n-1
ReadCsv(file) ==
    IF file.utf8
    THEN [columns |-> ReadCsvNames(Head(file.lines)), rows |-> Tail(file.lines)]
    ELSE [columns |-> [i \in DOMAIN Head(file.lines) |-> IntLabel(i - 1)],
          rows |-> file.lines]

\* line 27: "/" in str(x) and any(ch.isdigit() for ch in str(x))
IsYearLike(x) == HasSlash(Str(x)) /\ HasDigit(Str(x))

YearCount(row) == Cardinality({j \in DOMAIN row : IsYearLike(row[j])})

\* mutant: the scan does not break at the first row it finds
HeaderRow_Last(d) ==
    LET n == Min(ScanRows, Len(d.rows))
        q == {i \in 1..n : YearCount(d.rows[i]) >= 2}
    IN  IF q = {} THEN 0 ELSE CHOOSE i \in q : \A j \in q : j <= i

\* lines 21-31: the position of the first row among the first 10 that has at
\* least 2 year-like cells, 0 when there is none (positions count from 1)
HeaderRow(d) ==
    LET n == Min(ScanRows, Len(d.rows))
        q == {i \in 1..n : YearCount(d.rows[i]) >= 2}
    IN  IF q = {} THEN 0 ELSE CHOOSE i \in q : \A j \in q : i <= j

\* lines 35-49: col_counts[name] is the number of earlier cells with the same
\* stripped text, the generated names are not entered into col_counts
NewCols(cells) ==
    [i \in DOMAIN cells |->
        IF cells[i] # NaN /\ Strip(Str(cells[i])) # <<>>
        THEN LET col_name == Strip(Str(cells[i]))
                 k == Cardinality({j \in 1..(i - 1) :
                         /\ cells[j] # NaN
                         /\ Strip(Str(cells[j])) = col_name})
             IN  IF k = 0 THEN col_name
                 ELSE col_name \o <<"_">> \o StrOfInt(k)
        ELSE <<"c", "o", "l", "_">> \o StrOfInt(i - 1)]

\* df.dropna(axis=1, how="all") then df.dropna(axis=0, how="all")
DropEmpty(d) ==
    LET keep == Sorted({j \in DOMAIN d.columns :
                          \E i \in DOMAIN d.rows : d.rows[i][j] # NaN})
        cut(row) == [k \in DOMAIN keep |-> row[keep[k]]]
        rows == [i \in DOMAIN d.rows |-> cut(d.rows[i])]
    IN  [columns |-> cut(d.columns),
         rows |-> SelectSeq(rows, LAMBDA r : \E k \in DOMAIN r : r[k] # NaN)]

\* detect_header_and_clean, lines 15-59
DetectHeaderAndClean(d) ==
    LET header_row == HeaderRow(d)
        named == IF header_row > 0
                 THEN [columns |-> NewCols(d.rows[header_row]),
                       rows |-> SubSeq(d.rows, header_row + 1, Len(d.rows))]
                 ELSE d
        kept == DropEmpty(named)
    IN  [columns |-> [k \in DOMAIN kept.columns |-> Strip(Str(kept.columns[k]))],
         rows |-> kept.rows]

\* process_file, lines 107-111: the first column whose name has no digit, the
\* leftmost column when every name has one
IdCols(d) ==
    LET id_col_candidates == SelectSeq(d.columns, LAMBDA c : ~HasDigit(Str(c)))
    IN  IF id_col_candidates = <<>> THEN <<d.columns[1]>>
        ELSE <<id_col_candidates[1]>>

\* unpivot_years, lines 66-69
YearCols(d) ==
    LET year_cols ==
            SelectSeq(d.columns,
                LAMBDA c : IsStr(c) /\ (\/ HasSlash(c) /\ HasDigit(c)
                                        \/ IsDigit(Strip(c))))
    IN  IF year_cols # <<>> THEN year_cols
        ELSE SelectSeq(d.columns, LAMBDA c : HasDigit(Str(c)))

\* unpivot_years, lines 72-74
ValidIdCols(d, id_cols) ==
    LET valid_id_cols == SelectSeq(id_cols, LAMBDA c : c \in Range(d.columns))
    IN  IF valid_id_cols = <<>> THEN <<d.columns[1]>> ELSE valid_id_cols

\* row[label] of a row that iterrows yields: the cell under the label, a Series
\* of the cells when several columns carry the label
RowGet(d, row, label) ==
    LET at == Sorted({j \in DOMAIN d.columns : d.columns[j] = label})
    IN  IF Len(at) = 1 THEN row[at[1]]
        ELSE SeriesOf([k \in DOMAIN at |-> row[at[k]]])

\* unpivot_years, lines 61-86: one record per row and year column, rows outer
UnpivotYears(d, id_cols) ==
    LET year_cols == YearCols(d)
        valid_id_cols == ValidIdCols(d, id_cols)
        m == Len(year_cols)
        record(row, year_col) ==
            [ids |-> [k \in DOMAIN valid_id_cols |->
                         [col |-> valid_id_cols[k],
                          val |-> RowGet(d, row, valid_id_cols[k])]],
             year_label |-> year_col,
             value |-> RowGet(d, row, year_col)]
    IN  [n \in 1..(Len(d.rows) * m) |->
            record(d.rows[((n - 1) \div m) + 1], year_cols[((n - 1) % m) + 1])]

\* pd.to_numeric(..., errors="coerce") of the texts the cells can hold: the
\* number of a string of digits, None (NaN) for any other text
ToNumeric(s) == IF IsDigit(s) THEN Some(IntOfStr(s)) ELSE None

\* line 119: the number the value cell is coerced to
CoerceValue(v) == ToNumeric(Strip(RemoveCommas(Str(v))))

\* process_file, line 115: long.dropna(subset=["value"])
DropNullValues(records) == SelectSeq(records, LAMBDA r : r.value # NaN)

\* process_file, lines 117-120: the first column is stripped, the value is
\* coerced, the records whose value did not coerce are dropped
Normalize(records) ==
    LET coerced ==
            [n \in DOMAIN records |->
                [ids |-> [k \in DOMAIN records[n].ids |->
                             IF k = 1
                             THEN [records[n].ids[k] EXCEPT
                                      !.val = Strip(Str(records[n].ids[k].val))]
                             ELSE records[n].ids[k]],
                 year_label |-> records[n].year_label,
                 value |-> CoerceValue(records[n].value)]]
        numeric == SelectSeq(coerced, LAMBDA r : r.value # None)
    IN  [n \in DOMAIN numeric |-> [numeric[n] EXCEPT !.value = @[1]]]

\* transform main, line 124, and process_file, lines 88-94: the next raw CSV
\* is read
TrReadCsv ==
    /\ tpc = "glob"
    /\ \E file \in RawFiles :
          /\ path' = Some(file)
          /\ df' = Some(ReadCsv(file))
    /\ tpc' = "detect"
    /\ UNCHANGED <<df2, long, cleaned, obsVars, regVars, pipeVars, dqVars, raceVars, crashVars>>

\* process_file, lines 98-99 (detect_header_and_clean raises on none of the
\* frames read here, the except branch is not taken)
TrDetectHeader ==
    /\ tpc = "detect"
    /\ df2' = Some(DetectHeaderAndClean(df[1]))
    /\ tpc' = "unpivot"
    /\ UNCHANGED <<path, df, long, cleaned, obsVars, regVars, pipeVars, dqVars, raceVars, crashVars>>

\* process_file, lines 107-113: df2.columns[0] raises IndexError when no
\* column is left
TrUnpivot ==
    /\ tpc = "unpivot"
    /\ IF df2[1].columns = <<>>
       THEN /\ tpc' = "raised"
            /\ UNCHANGED long
       ELSE /\ long' = Some(UnpivotYears(df2[1], IdCols(df2[1])))
            /\ tpc' = "normalize"
    /\ UNCHANGED <<path, df, df2, cleaned, obsVars, regVars, pipeVars, dqVars, raceVars, crashVars>>

\* process_file, lines 115-121: a frame made of no record has no column and
\* dropna(subset=["value"]) raises KeyError
TrNormalize ==
    /\ tpc = "normalize"
    /\ IF long[1] = <<>>
       THEN /\ tpc' = "raised"
            /\ UNCHANGED cleaned
       ELSE /\ cleaned' = Some(Normalize(DropNullValues(long[1])))
            /\ tpc' = "returned"
    /\ UNCHANGED <<path, df, df2, long, obsVars, regVars, pipeVars, dqVars, raceVars, crashVars>>

\* transform main, lines 127-135: the frame is written or skipped, the error
\* is printed, and the loop goes to the next path; no run is opened, no
\* statistic is recorded
TrNextPath ==
    /\ tpc \in {"raised", "returned"}
    /\ tpc' = "glob"
    /\ path' = None
    /\ df' = None
    /\ df2' = None
    /\ long' = None
    /\ cleaned' = None
    /\ UNCHANGED <<obsVars, regVars, pipeVars, dqVars, raceVars, crashVars>>

----------------------------------------------------------------------------
\* The quality validators (observability/data_quality.py).
\*
\* A frame handed to a validator is its column list and its rows in order,
\* given as blocks of equal consecutive rows (the row and how many times it
\* is repeated).  A float that is a ratio of counts is the reduced fraction
\* [num, den]; den = 0 is the nan that numpy gives for 0 / 0.

\* bound on the number of blocks of a frame
MaxBlocks == 2

\* how many times a block repeats its row
Counts == {1, 19, 100}

RECURSIVE GCD(_, _)
GCD(a, b) == IF b = 0 THEN a ELSE GCD(b, a % b)

FloatNaN == [num |-> 0, den |-> 0]

\* a / b of two counts
Frac(a, b) ==
    IF b = 0 THEN FloatNaN
    ELSE [num |-> a \div GCD(a, b), den |-> b \div GCD(a, b)]

FloatOne == Frac(1, 1)
FloatZero == Frac(0, 1)

IsFloatNaN(x) == x.den = 0

\* 1 - x
OneMinus(x) == IF IsFloatNaN(x) THEN FloatNaN ELSE Frac(x.den - x.num, x.den)

\* x + y
FloatAdd(x, y) ==
    IF IsFloatNaN(x) \/ IsFloatNaN(y) THEN FloatNaN
    ELSE Frac(x.num * y.den + y.num * x.den, x.den * y.den)

\* x < y and x > y; a comparison with nan is False
FloatLt(x, y) ==
    ~IsFloatNaN(x) /\ ~IsFloatNaN(y) /\ x.num * y.den < y.num * x.den

FloatGt(x, y) == FloatLt(y, x)

RECURSIVE SumSeq(_)
SumSeq(s) == IF s = <<>> THEN 0 ELSE Head(s) + SumSeq(Tail(s))

RECURSIVE FloatSum(_)
FloatSum(s) == IF s = <<>> THEN FloatZero ELSE FloatAdd(Head(s), FloatSum(Tail(s)))

RECURSIVE Concat(_)
Concat(ss) == IF ss = <<>> THEN <<>> ELSE Head(ss) \o Concat(Tail(ss))

\* sum(flags) of a list of booleans
CountTrue(flags) == Cardinality({k \in DOMAIN flags : flags[k]})

\* the upper end of the expected range, max_threshold = 1e9
MaxThreshold == 1000000000

\* the rows of the frames: indicator and year_label cells are texts or NaN, a
\* cell of the value column is a number, inf, nan or a text
FrameRows ==
    LET good == <<"a", "b", "c", "d", "e">>
        blank == <<" ", " ", " ", " ", " ">>
        year == <<"2", "0", "1", "6", "/", "1", "7">>
        old == <<"1", "9", "9", "9", "/", "0", "0">>
        num(v) == [kind |-> "num", v |-> v]
    IN  { [indicator |-> good, year_label |-> year, value |-> num(5),
           note |-> good],
          [indicator |-> good, year_label |-> year, value |-> num(-1),
           note |-> good],
          [indicator |-> NaN, year_label |-> NaN,
           value |-> [kind |-> "nan", v |-> 0], note |-> NaN],
          [indicator |-> blank, year_label |-> <<"1", "/", "2">>,
           value |-> [kind |-> "inf", v |-> 0], note |-> good],
          [indicator |-> <<"a", "b">>, year_label |-> old,
           value |-> [kind |-> "str", v |-> 0], note |-> good] }

ColumnLists ==
    { <<"indicator", "year_label", "value">>, <<"indicator", "value">>,
      <<"note">> }

Frames ==
    [columns : ColumnLists,
     blocks : UNION {[1..k -> [row : FrameRows, n : Counts]] :
                        k \in 0..MaxBlocks}]

\* len(df)
FrameLen(d) == SumSeq([i \in DOMAIN d.blocks |-> d.blocks[i].n])

\* the number of rows of the frame that are among rows: (mask).sum()
CountRows(d, rows) ==
    SumSeq([i \in DOMAIN d.blocks |->
               IF d.blocks[i].row \in rows THEN d.blocks[i].n ELSE 0])

\* df[col].iloc[k]
ILoc(d, col, k) ==
    LET upto(i) == SumSeq([j \in 1..i |-> d.blocks[j].n])
        i == CHOOSE i \in DOMAIN d.blocks : upto(i - 1) <= k /\ k < upto(i)
    IN  d.blocks[i].row[col]

\* pd.isna of a cell of the column
IsNull(col, cell) == IF col = "value" THEN cell.kind = "nan" ELSE cell = NaN

\* df[cols] of a row
Project(row, cols) == [k \in DOMAIN cols |-> row[cols[k]]]

HasColumn(d, col) == col \in Range(d.columns)

\* pd.api.types.is_numeric_dtype(df['value']): the column holds no text (a
\* frame without rows has object columns)
IsNumericDtype(d) ==
    /\ d.blocks # <<>>
    /\ \A i \in DOMAIN d.blocks : d.blocks[i].row.value.kind # "str"

\* type(cell).__name__ of a cell of the column
TypeName(d, col, cell) ==
    IF col = "value"
    THEN IF IsNumericDtype(d) THEN "float64"
         ELSE IF cell.kind = "str" THEN "str"
         ELSE IF cell.kind = "num" THEN "int"
         ELSE "float"
    ELSE IF cell = NaN THEN "float" ELSE "str"

\* str.match(r'^\d{4}/\d{2}$')
MatchesYearFormat(s) ==
    /\ Len(s) = 7
    /\ \A i \in {1, 2, 3, 4, 6, 7} : s[i] \in Digits
    /\ s[5] = "/"

\* str.extract(r'^(\d{4})')[0].astype(float): None for nan
FirstYear(s) ==
    IF Len(s) >= 4 /\ \A i \in 1..4 : s[i] \in Digits
    THEN Some(IntOfStr(SubSeq(s, 1, 4))) ELSE None

\* the keyword arguments of a log_quality_check call
QualityCheck(name, category, passed, metric, threshold) ==
    [check_name |-> name, check_category |-> category, passed |-> passed,
     metric_value |-> Some(metric), threshold_value |-> Some(threshold)]

\* passed and score of a composite check, lines 222-223, 294-295, 425-426
AllOf(checks_passed) == \A k \in DOMAIN checks_passed : checks_passed[k]

ScoreOf(checks_passed) ==
    IF checks_passed = <<>> THEN FloatOne
    ELSE Frac(CountTrue(checks_passed), Len(checks_passed))

\* mutant: the score is the null rate itself
CompletenessScore_NullRate(null_pct) == null_pct

\* check_completeness, line 124: 'score': 1 - null_pct
CompletenessScore(null_pct) == OneMinus(null_pct)

\* check_completeness, lines 74-136.  logged: the log_quality_check calls in
\* order; result: the dict returned; appended: what self.results gains
CheckCompleteness(d, critical_columns) ==
    LET n == FrameLen(d)
        nulls(col) == CountRows(d, {r \in FrameRows : IsNull(col, r[col])})
        total_cells == n * Len(critical_columns)
        null_cells == SumSeq([k \in DOMAIN critical_columns |->
                                 nulls(critical_columns[k])])
        null_pct == IF total_cells > 0 THEN Frac(null_cells, total_cells)
                    ELSE FloatZero
        threshold == Frac(5, 100)
        column(col) ==
            LET col_null_pct == Frac(nulls(col), n)
            IN  QualityCheck(<<"completeness", col>>, "completeness",
                             FloatLt(col_null_pct, threshold),
                             OneMinus(col_null_pct), OneMinus(threshold))
        result == [check |-> "completeness",
                   passed |-> FloatLt(null_pct, threshold),
                   score |-> CompletenessScore(null_pct)]
    IN  [logged |-> [k \in DOMAIN critical_columns |->
                        column(critical_columns[k])],
         result |-> result, appended |-> <<result>>]

\* mutant: the sub-checks of check_validity stop at the first that fails
ValiditySubChecks_StopAtFailure(flags) ==
    IF \E k \in DOMAIN flags : ~flags[k]
    THEN 1..(CHOOSE k \in DOMAIN flags :
                ~flags[k] /\ \A j \in 1..(k - 1) : flags[j])
    ELSE DOMAIN flags

\* check_validity, lines 160-220: the sub-checks that are run and logged, of
\* the three whose outcomes are flags
ValiditySubChecks(flags) == DOMAIN flags

\* check_validity, lines 138-236
CheckValidity(d) ==
    LET present(r) == r.value.kind # "nan"
        values == CountRows(d, {r \in FrameRows : present(r)})
        negative(r) == r.value.kind = "num" /\ r.value.v < 0
        outside(r) == \/ negative(r)
                      \/ r.value.kind = "num" /\ r.value.v > MaxThreshold
                      \/ r.value.kind = "inf"
        infinite(r) == r.value.kind = "inf"
        negative_count == CountRows(d, {r \in FrameRows : negative(r)})
        out_of_range == CountRows(d, {r \in FrameRows : outside(r)})
        infinite_count == CountRows(d, {r \in FrameRows : infinite(r)})
        no_negatives == negative_count = 0
        in_range == FloatLt(Frac(out_of_range, values), Frac(1, 100))
        no_infinites == infinite_count = 0
        flags == <<no_negatives, in_range, no_infinites>>
        calls ==
            << QualityCheck(<<"validity_no_negatives">>, "validity",
                            no_negatives,
                            OneMinus(Frac(negative_count, values)), FloatOne),
               QualityCheck(<<"validity_value_range">>, "validity", in_range,
                            OneMinus(Frac(out_of_range, values)),
                            Frac(99, 100)),
               QualityCheck(<<"validity_no_infinites">>, "validity",
                            no_infinites,
                            IF no_infinites THEN FloatOne ELSE FloatZero,
                            FloatOne) >>
        run == IF HasColumn(d, "value") /\ IsNumericDtype(d) /\ values > 0
               THEN Sorted(ValiditySubChecks(flags)) ELSE <<>>
        checks_passed == [k \in DOMAIN run |-> flags[run[k]]]
        result == [check |-> "validity", passed |-> AllOf(checks_passed),
                   score |-> ScoreOf(checks_passed)]
    IN  [logged |-> [k \in DOMAIN run |-> calls[run[k]]],
         result |-> result, appended |-> <<result>>]

\* df.duplicated().sum(): the rows equal to an earlier row
DuplicateCount(d) ==
    FrameLen(d)
    - Cardinality({Project(d.blocks[i].row, d.columns) : i \in DOMAIN d.blocks})

\* check_consistency, lines 238-308
CheckConsistency(d) ==
    LET n == FrameLen(d)
        duplicate_pct == Frac(DuplicateCount(d), n)
        no_duplicates == FloatLt(duplicate_pct, Frac(1, 100))
        labelled(r) == r.year_label # NaN
        valid(r) == labelled(r) /\ MatchesYearFormat(Str(r.year_label))
        year_labels == CountRows(d, {r \in FrameRows : labelled(r)})
        format_consistency ==
            IF year_labels > 0 THEN Frac(CountRows(d, {r \in FrameRows : valid(r)}), year_labels)
            ELSE FloatOne
        consistent_format == FloatGt(format_consistency, Frac(95, 100))
        duplicates ==
            QualityCheck(<<"consistency_no_duplicates">>, "consistency",
                         no_duplicates, OneMinus(duplicate_pct), Frac(99, 100))
        format ==
            QualityCheck(<<"consistency_year_format">>, "consistency",
                         consistent_format, format_consistency, Frac(95, 100))
        checks_passed == IF HasColumn(d, "year_label")
                         THEN <<no_duplicates, consistent_format>>
                         ELSE <<no_duplicates>>
        result == [check |-> "consistency", passed |-> AllOf(checks_passed),
                   score |-> ScoreOf(checks_passed)]
    IN  [logged |-> IF HasColumn(d, "year_label") THEN <<duplicates, format>>
                    ELSE <<duplicates>>,
         result |-> result, appended |-> <<result>>]

\* check_uniqueness, lines 310-369: without key columns the check is skipped
\* and its result is returned without being appended to self.results
CheckUniqueness(d) ==
    LET key_columns ==
            SelectSeq(<<"indicator", "year_label", "location">>,
                      LAMBDA c : HasColumn(d, c))
        key(i) == Project(d.blocks[i].row, key_columns)
        together(i) == SumSeq([j \in DOMAIN d.blocks |->
                                  IF key(j) = key(i) THEN d.blocks[j].n ELSE 0])
        duplicate_keys ==
            SumSeq([i \in DOMAIN d.blocks |->
                       IF together(i) > 1 THEN d.blocks[i].n ELSE 0])
        duplicate_pct == Frac(duplicate_keys, FrameLen(d))
        passed == duplicate_keys = 0
        result == [check |-> "uniqueness", passed |-> passed,
                   score |-> OneMinus(duplicate_pct)]
    IN  IF key_columns = <<>>
        THEN [logged |-> <<>>,
              result |-> [check |-> "uniqueness", passed |-> TRUE,
                          score |-> FloatOne],
              appended |-> <<>>]
        ELSE [logged |-> << QualityCheck(<<"uniqueness_key_constraint">>,
                                         "consistency", passed,
                                         OneMinus(duplicate_pct), FloatOne) >>,
              result |-> result, appended |-> <<result>>]

\* check_data_types, lines 403-409: a column is mixed when the frame has more
\* than 100 rows and its first and its midpoint cell have different types and
\* neither is null
MixedTypeColumns(d) ==
    LET n == FrameLen(d)
    IN  {col \in Range(d.columns) :
            /\ n > 100
            /\ TypeName(d, col, ILoc(d, col, 0))
                  # TypeName(d, col, ILoc(d, col, n \div 2))
            /\ ~IsNull(col, ILoc(d, col, 0))
            /\ ~IsNull(col, ILoc(d, col, n \div 2))}

\* check_data_types, lines 371-440
CheckDataTypes(d) ==
    LET is_numeric == IsNumericDtype(d)
        no_mixed_types == MixedTypeColumns(d) = {}
        numeric ==
            QualityCheck(<<"type_value_is_numeric">>, "validity", is_numeric,
                         IF is_numeric THEN FloatOne ELSE FloatZero, FloatOne)
        mixed ==
            QualityCheck(<<"type_no_mixed_types">>, "validity", no_mixed_types,
                         IF no_mixed_types THEN FloatOne ELSE FloatZero,
                         FloatOne)
        checks_passed == IF HasColumn(d, "value")
                         THEN <<is_numeric, no_mixed_types>>
                         ELSE <<no_mixed_types>>
        result == [check |-> "data_types", passed |-> AllOf(checks_passed),
                   score |-> ScoreOf(checks_passed)]
    IN  [logged |-> IF HasColumn(d, "value") THEN <<numeric, mixed>>
                    ELSE <<mixed>>,
         result |-> result, appended |-> <<result>>]

\* mutant: the batch passes when most of the checks pass
AllPassed_Majority(checks) ==
    2 * Cardinality({k \in DOMAIN checks : checks[k].passed}) > Len(checks)

\* validate_all, line 61: all(check['passed'] for check in checks)
AllPassed(checks) == \A k \in DOMAIN checks : checks[k].passed

\* validate_all, lines 33-72
ValidateAll(d, critical_columns) ==
    LET critical == IF critical_columns = None THEN d.columns
                    ELSE critical_columns[1]
        summary_of(checks, all_passed, passed, total) ==
            [all_passed |-> all_passed,
             checks_run |-> Len(checks),
             checks_passed |-> passed,
             checks_failed |-> Len(checks) - passed,
             overall_score |->
                IF IsFloatNaN(total) THEN FloatNaN
                ELSE Frac(total.num * 100, total.den * Len(checks)),
             details |-> checks]
        summarised(checks) ==
            summary_of(checks, AllPassed(checks),
                       Cardinality({k \in DOMAIN checks : checks[k].passed}),
                       FloatSum([k \in DOMAIN checks |-> checks[k].score]))
        returned(parts, summary_dict) ==
            [logged |-> Concat([k \in DOMAIN parts |-> parts[k].logged]),
             appended |-> Concat([k \in DOMAIN parts |-> parts[k].appended]),
             all_passed |-> summary_dict.all_passed,
             summary |-> summary_dict]
        ran(parts) ==
            returned(parts,
                     summarised([k \in DOMAIN parts |-> parts[k].result]))
    IN  ran(<< CheckCompleteness(d, critical), CheckValidity(d),
               CheckConsistency(d), CheckUniqueness(d), CheckDataTypes(d) >>)

\* validate_health_data, lines 501-507
HealthCriticalColumns(d) ==
    SelectSeq(<<"indicator", "year_label", "value">>,
              LAMBDA c : HasColumn(d, c))

\* _check_indicator_names, lines 517-543: the log_quality_check calls it makes
CheckIndicatorNames(d) ==
    LET named(r) == r.indicator # NaN
        empty(r) == named(r) /\ Strip(Str(r.indicator)) = <<>>
        sized(r) == /\ named(r)
                    /\ Len(Str(r.indicator)) >= 5
                    /\ Len(Str(r.indicator)) <= 500
        indicators == CountRows(d, {r \in FrameRows : named(r)})
        no_empty == CountRows(d, {r \in FrameRows : empty(r)}) = 0
        length_valid == IF indicators > 0
                        THEN Frac(CountRows(d, {r \in FrameRows : sized(r)}), indicators)
                        ELSE FloatOne
        valid_length == FloatGt(length_valid, Frac(95, 100))
    IN  IF ~HasColumn(d, "indicator") THEN <<>>
        ELSE << QualityCheck(<<"health_indicator_names_valid">>, "validity",
                             no_empty /\ valid_length, length_valid,
                             Frac(95, 100)) >>

\* _check_year_range, lines 545-576: the log_quality_check calls it makes
CheckYearRange(d) ==
    LET labelled(r) == r.year_label # NaN
        inside(r) == /\ labelled(r)
                     /\ FirstYear(Str(r.year_label)) # None
                     /\ FirstYear(Str(r.year_label))[1] >= 2010
                     /\ FirstYear(Str(r.year_label))[1] <= 2030
        years == CountRows(d, {r \in FrameRows : labelled(r)})
        range_pct == IF years > 0 THEN Frac(CountRows(d, {r \in FrameRows : inside(r)}), years)
                     ELSE FloatOne
        in_range == FloatGt(range_pct, Frac(99, 100))
    IN  IF ~HasColumn(d, "year_label") THEN <<>>
        ELSE << QualityCheck(<<"health_year_range_valid">>, "validity",
                             in_range, range_pct, Frac(99, 100)) >>

\* the calls made on a validator for a frame
ValidatorCalls(d) ==
    { [fn |-> "validate_all", critical_columns |-> None],
      [fn |-> "validate_all", critical_columns |-> Some(<<>>)],
      [fn |-> "validate_all", critical_columns |-> Some(<<d.columns[1]>>)],
      [fn |-> "validate_health_data", critical_columns |-> None] }

\* if self.observer: self.observer.log_quality_check(...) for each call
RECURSIVE LogAll(_, _, _)
LogAll(qs, rid, calls) ==
    IF rid = 0 \/ calls = <<>> THEN qs
    ELSE LogAll(LogQualityRows(qs, rid, Head(calls)), rid, Tail(calls))

\* DataQualityValidator(observer) inside a with ObservedPipeline(...) block
\* as in load main, or DataQualityValidator() without an observer; one of its
\* entry points is then called on a frame
DqConstruct ==
    /\ vpc = "new"
    /\ \E d \in Frames : \E call \in ValidatorCalls(d) :
          /\ vdf' = Some(d)
          /\ vcall' = Some(call)
    /\ \/ /\ runs' = StartRunRows(runs, "uganda_health_etl", "load", None)
          /\ vobserver' = Len(runs) + 1
       \/ /\ vobserver' = 0
          /\ UNCHANGED runs
    /\ vpc' = "validate"
    /\ UNCHANGED <<got, results, summary, quality, lineage, obsRunId, obsScoped,
                   lastCall, nCalls, regVars, pipeVars, trVars, raceVars,
                   crashVars>>

\* validate_all, or the validate_all that validate_health_data starts with
DqValidateAll ==
    /\ vpc = "validate"
    /\ \E out \in {ValidateAll(vdf[1],
                        IF vcall[1].fn = "validate_health_data"
                        THEN Some(HealthCriticalColumns(vdf[1]))
                        ELSE vcall[1].critical_columns)} :
          /\ quality' = LogAll(quality, vobserver, out.logged)
          /\ results' = results \o out.appended
          /\ summary' = Some(out.summary)
    /\ vpc' = IF vcall[1].fn = "validate_health_data" THEN "indicator_names"
              ELSE "returned"
    /\ UNCHANGED <<got, vdf, vcall, vobserver, runs, lineage, obsRunId, obsScoped,
                   lastCall, nCalls, regVars, pipeVars, trVars, raceVars,
                   crashVars>>

\* validate_health_data, line 512
DqCheckIndicatorNames ==
    /\ vpc = "indicator_names"
    /\ quality' = LogAll(quality, vobserver, CheckIndicatorNames(vdf[1]))
    /\ vpc' = "year_range"
    /\ UNCHANGED <<got, vdf, vcall, vobserver, results, summary, runs, lineage,
                   obsRunId, obsScoped, lastCall, nCalls, regVars, pipeVars,
                   trVars, raceVars,
                   crashVars>>

\* validate_health_data, lines 513-515
DqCheckYearRange ==
    /\ vpc = "year_range"
    /\ quality' = LogAll(quality, vobserver, CheckYearRange(vdf[1]))
    /\ vpc' = "returned"
    /\ UNCHANGED <<got, vdf, vcall, vobserver, results, summary, runs, lineage,
                   obsRunId, obsScoped, lastCall, nCalls, regVars, pipeVars,
                   trVars, raceVars,
                   crashVars>>

\* get_summary, lines 442-454, on self.results
GetSummary(rs) ==
    LET summary_of(passed, total) ==
            [checks_run |-> Len(rs),
             checks_passed |-> passed,
             checks_failed |-> Len(rs) - passed,
             overall_score |->
                IF IsFloatNaN(total) THEN FloatNaN
                ELSE Frac(total.num * 100, total.den * Len(rs)),
             all_passed |-> \A k \in DOMAIN rs : rs[k].passed,
             details |-> rs]
    IN  IF rs = <<>> THEN [no_checks_run |-> TRUE]
        ELSE summary_of(Cardinality({k \in DOMAIN rs : rs[k].passed}),
                        FloatSum([k \in DOMAIN rs |-> rs[k].score]))

\* validator.get_summary() right after validate_all has returned
DqGetSummary ==
    /\ vpc = "returned"
    /\ vcall[1].fn = "validate_all"
    /\ got' = Some(GetSummary(results))
    /\ vpc' = "summarised"
    /\ UNCHANGED <<vdf, vcall, vobserver, results, summary, obsVars, regVars,
                   pipeVars, trVars, raceVars, crashVars>>

\* the with block of the observer is left without an exception
DqExit ==
    /\ vpc \in {"returned", "summarised"}
    /\ runs' = IF vobserver = 0 THEN runs
               ELSE CompleteRunRows(runs, vobserver, ExitArgs(None))
    /\ vpc' = "closed"
    /\ UNCHANGED <<got, vdf, vcall, vobserver, results, summary, quality, lineage,
                   obsRunId, obsScoped, lastCall, nCalls, regVars, pipeVars,
                   trVars, raceVars,
                   crashVars>>

----------------------------------------------------------------------------
\* The pipeline: run_full_pipeline and the main of each stage.

\* the workbooks data/source may hold, in the order glob lists them
SourceDir == <<"data/source/a.xlsx", "data/source/b.xlsx">>

\* the workbooks of the model: sheet number k holds k - 1 rows, so the first
\* sheet of every workbook is empty
SheetRows(k) == k - 1

\* fractions of null cells a sheet with rows may have, in percent
NullPcts == {0, 60}

LogEntry(stage, unit, outcome) ==
    [stage |-> stage, unit |-> unit, outcome |-> outcome]

\* the arguments of a complete_run that passes the three record counts
RunStats(status, input, processed, loaded, message) ==
    [status |-> status, records_input |-> Some(input),
     records_processed |-> Some(processed), records_loaded |-> Some(loaded),
     records_rejected |-> None, error_message |-> message,
     error_details |-> None]

\* except Exception of run_full_pipeline: log and return 1
ReturnFailure ==
    /\ pc = "except"
    /\ exit_code' = Some(1)
    /\ pc' = "done"
    /\ UNCHANGED <<fnVars, obsVars, regVars, excel_files, fileIdx, observer, sheet_names,
                   sheetIdx, total_rows, files_processed, files_failed, caught,
                   raw_dir, clean_dir, pathIdx, total_records, records_loaded, log>>

\* run_full_pipeline after the third stage returned: return 0
ReturnSuccess ==
    /\ pc = "completed"
    /\ exit_code' = Some(0)
    /\ pc' = "done"
    /\ UNCHANGED <<fnVars, obsVars, regVars, excel_files, fileIdx, observer, sheet_names,
                   sheetIdx, total_rows, files_processed, files_failed, caught,
                   raw_dir, clean_dir, pathIdx, total_records, records_loaded, log>>

\* data/raw is never emptied: it may hold a CSV of an earlier pipeline run (of a
\* workbook 0 that is no longer in data/source), which glob lists first
LeftoverRaw == {<<>>, <<(<<0, 2>>)>>}

\* stage 1, ingestion main up to its for loop: glob the workbooks, raise
\* FileNotFoundError when there is none
IngestionGlob ==
    /\ pc = "ingestion"
    /\ \E n \in 0..Len(SourceDir) :
          /\ excel_files' = SubSeq(SourceDir, 1, n)
          /\ disk' = [p \in Paths |->
                         IF \E i \in 1..n : SourceDir[i] = p
                         THEN Some(<<0>>) ELSE disk[p]]
          /\ IF n = 0
             THEN /\ caught' = Some([type |-> "FileNotFoundError",
                                     msg |-> "No Excel files found"])
                  /\ pc' = "except"
                  /\ UNCHANGED fileIdx
             ELSE /\ fileIdx' = 1
                  /\ pc' = "ing_enter"
                  /\ UNCHANGED caught
    /\ raw_dir' \in LeftoverRaw
    /\ files_processed' = 0
    /\ files_failed' = 0
    /\ UNCHANGED <<fnVars, obsVars, source_files, now, lastReg, nRegs, observer,
                   sheet_names, sheetIdx, total_rows, clean_dir, pathIdx,
                   total_records, records_loaded, log, exit_code>>

\* ingestion main: with ObservedPipeline(..., 'ingestion', str(excel_file))
IngestionEnter ==
    /\ pc = "ing_enter"
    /\ runs' = StartRunRows(runs, "uganda_health_etl", "ingestion",
                            Some(excel_files[fileIdx]))
    /\ observer' = Len(runs) + 1
    /\ pc' = "ing_open"
    /\ UNCHANGED <<fnVars, quality, lineage, obsRunId, obsScoped, lastCall, nCalls,
                   regVars, excel_files, fileIdx, sheet_names, sheetIdx,
                   total_rows, files_processed, files_failed, caught, raw_dir,
                   clean_dir, pathIdx, total_records, records_loaded, log,
                   exit_code>>

\* process_excel_file up to its for loop: open the workbook (which may raise)
\* and register it
IngestionOpen ==
    /\ pc = "ing_open"
    /\ \/ \E e \in Exceptions :
             /\ caught' = Some(e)
             /\ pc' = "ing_except"
             /\ UNCHANGED <<source_files, now, sheet_names, sheetIdx, total_rows>>
       \/ \E n \in 1..MaxSheets :
             /\ sheet_names' = n
             /\ source_files' =
                   RegisterRows(source_files, excel_files[fileIdx],
                                disk[excel_files[fileIdx]],
                                [sheet_count |-> Some(n), row_count |-> None,
                                 column_count |-> None,
                                 schema_fingerprint |->
                                     Some([sheet_names |-> [k \in 1..n |-> k],
                                           sheet_count |-> n])],
                                now + 1)
             /\ now' = now + 1
             /\ total_rows' = 0
             /\ sheetIdx' = 1
             /\ pc' = "ing_sheet"
             /\ UNCHANGED caught
    /\ UNCHANGED <<fnVars, obsVars, disk, lastReg, nRegs, excel_files, fileIdx, observer,
                   files_processed, files_failed, raw_dir, clean_dir, pathIdx,
                   total_records, records_loaded, log, exit_code>>

\* mutant: the except clause of the sheet loop leaves the loop
AfterSheetFailure_Break(idx, n) == "ing_complete"

\* except Exception ... continue in the sheet loop: on to the next sheet
AfterSheetFailure(idx, n) == IF idx < n THEN "ing_sheet" ELSE "ing_complete"

\* process_excel_file: one iteration of the for loop over the sheets
IngestionSheet ==
    /\ pc = "ing_sheet"
    /\ LET unit == <<fileIdx, sheetIdx>>
           rows == SheetRows(sheetIdx)
       IN \/ \* reading or writing the sheet raises: logged, next sheet
             /\ log' = Append(log, LogEntry("ingestion", unit, "failed"))
             /\ pc' = AfterSheetFailure(sheetIdx, sheet_names)
             /\ UNCHANGED <<raw_dir, lineage, quality, total_rows>>
          \/ \E np \in NullPcts :
             /\ raw_dir' = Append(raw_dir, unit)
             /\ lineage' = TrackLineageRows(lineage, observer,
                   [target_table |-> "raw_csv", target_column |-> "all_columns",
                    source_file |-> excel_files[fileIdx],
                    source_sheet |-> Some(sheetIdx),
                    source_column |-> "all_columns",
                    transformation_type |-> "direct_copy"])
             /\ quality' =
                   IF rows > 0
                   THEN LogQualityRows(quality, observer,
                           [check_name |-> <<"raw_completeness", fileIdx, sheetIdx>>,
                            check_category |-> "completeness",
                            passed |-> np < 50,
                            metric_value |-> Some(100 - np),
                            threshold_value |-> Some(50)])
                   ELSE quality
             /\ (rows = 0 => np = 0)
             /\ total_rows' = total_rows + rows
             /\ log' = Append(log, LogEntry("ingestion", unit, "ok"))
             /\ pc' = IF sheetIdx < sheet_names THEN "ing_sheet" ELSE "ing_complete"
    /\ sheetIdx' = sheetIdx + 1
    /\ UNCHANGED <<fnVars, runs, obsRunId, obsScoped, lastCall, nCalls, regVars,
                   excel_files, fileIdx, observer, sheet_names, files_processed,
                   files_failed, caught, clean_dir, pathIdx, total_records,
                   records_loaded, exit_code>>

\* ingestion main, the try branch after process_excel_file returned:
\* observer.complete_run(status='success', ...) with the row counts
IngestionComplete ==
    /\ pc = "ing_complete"
    /\ runs' = CompleteRunRows(runs, observer,
                  RunStats("success", total_rows, total_rows, total_rows, None))
    /\ files_processed' = files_processed + 1
    /\ log' = Append(log, LogEntry("ingestion", <<fileIdx>>, "ok"))
    /\ pc' = "ing_exit"
    /\ UNCHANGED <<fnVars, quality, lineage, obsRunId, obsScoped, lastCall, nCalls,
                   regVars, excel_files, fileIdx, observer, sheet_names, sheetIdx,
                   total_rows, files_failed, caught, raw_dir, clean_dir, pathIdx,
                   total_records, records_loaded, exit_code>>

\* ingestion main, except Exception as e: observer.complete_run(status='failed',
\* ...), then continue: the exception is handled inside the with block
IngestionExcept ==
    /\ pc = "ing_except"
    /\ runs' = CompleteRunRows(runs, observer,
                  RunStats("failed", 0, 0, 0, Some(caught[1].msg)))
    /\ files_failed' = files_failed + 1
    /\ log' = Append(log, LogEntry("ingestion", <<fileIdx>>, "failed"))
    /\ caught' = None
    /\ pc' = "ing_exit"
    /\ UNCHANGED <<fnVars, quality, lineage, obsRunId, obsScoped, lastCall, nCalls,
                   regVars, excel_files, fileIdx, observer, sheet_names, sheetIdx,
                   total_rows, files_processed, raw_dir, clean_dir, pathIdx,
                   total_records, records_loaded, exit_code>>

\* ingestion main: the with block is left, ObservedPipeline.__exit__ runs with
\* the exception in flight (none: both branches handled theirs), then the for
\* loop goes on
IngestionExit ==
    /\ pc = "ing_exit"
    /\ runs' = CompleteRunRows(runs, observer, ExitArgs(caught))
    /\ IF fileIdx < Len(excel_files)
       THEN /\ fileIdx' = fileIdx + 1
            /\ pc' = "ing_enter"
       ELSE /\ pc' = "ing_final"
            /\ UNCHANGED fileIdx
    /\ UNCHANGED <<fnVars, quality, lineage, obsRunId, obsScoped, lastCall, nCalls,
                   regVars, excel_files, observer, sheet_names, sheetIdx,
                   total_rows, files_processed, files_failed, caught, raw_dir,
                   clean_dir, pathIdx, total_records, records_loaded, log,
                   exit_code>>

\* ingestion main after the for loop: RuntimeError when no file was processed,
\* else main returns and run_full_pipeline starts stage 2
IngestionFinal ==
    /\ pc = "ing_final"
    /\ IF files_processed = 0
       THEN /\ caught' = Some([type |-> "RuntimeError",
                               msg |-> "All files failed to process"])
            /\ pc' = "except"
            /\ UNCHANGED pathIdx
       ELSE /\ pathIdx' = 1
            /\ pc' = "transform"
            /\ UNCHANGED caught
    /\ UNCHANGED <<fnVars, obsVars, regVars, excel_files, fileIdx, observer, sheet_names,
                   sheetIdx, total_rows, files_processed, files_failed, raw_dir,
                   clean_dir, total_records, records_loaded, log, exit_code>>

\* what process_file can make of a raw CSV: it raises, it returns an empty
\* table, or it returns rows (only a CSV that has rows can)
TransformOutcomes(unit) ==
    IF SheetRows(unit[2]) > 0 THEN {"error", "empty", "written"}
                              ELSE {"error", "empty"}

\* transform main: try ... except Exception around the body of the for loop;
\* whatever the outcome, the loop goes on with the next path
AfterTransformFile(outcome, idx, n) == idx + 1

\* stage 2, transform main: one iteration of for path in RAW_DIR.glob("*.csv")
TransformFile ==
    /\ pc = "transform"
    /\ pathIdx <= Len(raw_dir)
    /\ \E outcome \in TransformOutcomes(raw_dir[pathIdx]) :
          /\ log' = Append(log, LogEntry("transform", raw_dir[pathIdx], outcome))
          /\ clean_dir' = IF outcome = "written"
                          THEN Append(clean_dir, raw_dir[pathIdx])
                          ELSE clean_dir
          /\ pathIdx' = AfterTransformFile(outcome, pathIdx, Len(raw_dir))
    /\ UNCHANGED <<fnVars, obsVars, regVars, pc, excel_files, fileIdx, observer,
                   sheet_names, sheetIdx, total_rows, files_processed,
                   files_failed, caught, raw_dir, total_records, records_loaded,
                   exit_code>>

\* transform main returns; run_full_pipeline starts stage 3
TransformReturn ==
    /\ pc = "transform"
    /\ pathIdx > Len(raw_dir)
    /\ pc' = "load"
    /\ UNCHANGED <<fnVars, obsVars, regVars, excel_files, fileIdx, observer, sheet_names,
                   sheetIdx, total_rows, files_processed, files_failed, caught,
                   raw_dir, clean_dir, pathIdx, total_records, records_loaded,
                   log, exit_code>>

\* stage 3, load main: with ObservedPipeline('uganda_health_etl', 'load')
LoadEnter ==
    /\ pc = "load"
    /\ runs' = StartRunRows(runs, "uganda_health_etl", "load", None)
    /\ observer' = Len(runs) + 1
    /\ total_records' = 0
    /\ records_loaded' = 0
    /\ pathIdx' = 1
    /\ pc' = "ld_file"
    /\ UNCHANGED <<fnVars, quality, lineage, obsRunId, obsScoped, lastCall, nCalls,
                   regVars, excel_files, fileIdx, sheet_names, sheetIdx,
                   total_rows, files_processed, files_failed, caught, raw_dir,
                   clean_dir, log, exit_code>>

\* the three warehouse_completeness_<field> checks of one clean file; only the
\* indicator column can hold nulls (nulls: whether it does)
KeyFieldChecks(qs, rid, nulls) ==
    LET check(field, bad) ==
            [check_name |-> <<"warehouse_completeness", field>>,
             check_category |-> "completeness",
             passed |-> ~bad,
             metric_value |-> Some(IF bad THEN 50 ELSE 100),
             threshold_value |-> Some(100)]
    IN LogQualityRows(
          LogQualityRows(
             LogQualityRows(qs, rid, check("indicator", nulls)),
             rid, check("year_label", FALSE)),
          rid, check("value", FALSE))

\* SELECT COUNT(*) ... WHERE indicator_id IS NULL OR date_id IS NULL is above 0
\* once a file with a null indicator was loaded
Orphans(qs, rid) ==
    \E i \in DOMAIN qs :
        /\ qs[i].run_id = rid
        /\ qs[i].check_name = <<"warehouse_completeness", "indicator">>
        /\ ~qs[i].passed

\* load main: one iteration of for path in csv_files
LoadFile ==
    /\ pc = "ld_file"
    /\ pathIdx <= Len(clean_dir)
    /\ LET unit == clean_dir[pathIdx]
           rows == SheetRows(unit[2])
       IN \/ \* pd.read_csv raises
             \E e \in Exceptions :
                /\ caught' = Some(e)
                /\ pc' = "ld_exit"
                /\ log' = Append(log, LogEntry("load", unit, "failed"))
                /\ UNCHANGED <<quality, lineage, total_records, records_loaded,
                               pathIdx>>
          \/ \* an upsert or the fact load raises, after the completeness checks
             \E e \in Exceptions, nulls \in BOOLEAN :
                /\ total_records' = total_records + rows
                /\ quality' = KeyFieldChecks(quality, observer, nulls)
                /\ caught' = Some(e)
                /\ pc' = "ld_exit"
                /\ log' = Append(log, LogEntry("load", unit, "failed"))
                /\ UNCHANGED <<lineage, records_loaded, pathIdx>>
          \/ \E nulls \in BOOLEAN :
                LET q3 == KeyFieldChecks(quality, observer, nulls)
                    orphan == Orphans(q3, observer)
                IN /\ total_records' = total_records + rows
                   /\ lineage' = TrackLineageRows(lineage, observer,
                         [target_table |-> "fact_indicator_values",
                          target_column |-> "value",
                          source_file |-> unit,
                          source_sheet |-> None,
                          source_column |-> "value",
                          transformation_type |-> "direct_copy"])
                   /\ quality' = LogQualityRows(q3, observer,
                         [check_name |-> <<"warehouse_referential_integrity">>,
                          check_category |-> "consistency",
                          passed |-> ~orphan,
                          metric_value |-> Some(IF orphan THEN 0 ELSE 100),
                          threshold_value |-> Some(100)])
                   /\ records_loaded' = records_loaded + rows
                   /\ pathIdx' = pathIdx + 1
                   /\ log' = Append(log, LogEntry("load", unit, "ok"))
                   /\ UNCHANGED <<caught, pc>>
    /\ UNCHANGED <<fnVars, runs, obsRunId, obsScoped, lastCall, nCalls, regVars,
                   excel_files, fileIdx, observer, sheet_names, sheetIdx,
                   total_rows, files_processed, files_failed, raw_dir, clean_dir,
                   exit_code>>

\* load main after the for loop: the warehouse_fact_count check and
\* observer.complete_run(status='success', ...)
LoadComplete ==
    /\ pc = "ld_file"
    /\ pathIdx > Len(clean_dir)
    /\ quality' = LogQualityRows(quality, observer,
          [check_name |-> <<"warehouse_fact_count">>,
           check_category |-> "consistency",
           passed |-> records_loaded > 0,
           metric_value |-> Some(records_loaded),
           threshold_value |-> Some(1)])
    /\ runs' = CompleteRunRows(runs, observer,
          RunStats("success", total_records, records_loaded, records_loaded, None))
    /\ pc' = "ld_exit"
    /\ UNCHANGED <<fnVars, lineage, obsRunId, obsScoped, lastCall, nCalls, regVars,
                   excel_files, fileIdx, observer, sheet_names, sheetIdx,
                   total_rows, files_processed, files_failed, caught, raw_dir,
                   clean_dir, pathIdx, total_records, records_loaded, log,
                   exit_code>>

\* load main: the with block is left, ObservedPipeline.__exit__ runs with the
\* exception in flight, which it does not suppress
LoadExit ==
    /\ pc = "ld_exit"
    /\ runs' = CompleteRunRows(runs, observer, ExitArgs(caught))
    /\ caught' = ExitPropagates(caught)
    /\ pc' = IF ExitPropagates(caught) # None THEN "except" ELSE "completed"
    /\ UNCHANGED <<fnVars, quality, lineage, obsRunId, obsScoped, lastCall, nCalls,
                   regVars, excel_files, fileIdx, observer, sheet_names, sheetIdx,
                   total_rows, files_processed, files_failed, raw_dir, clean_dir,
                   pathIdx, total_records, records_loaded, log, exit_code>>

ObsInit ==
    /\ runs = <<>>
    /\ quality = <<>>
    /\ lineage = <<>>
    /\ obsRunId = [o \in Observers |-> 0]
    /\ obsScoped = [o \in Observers |-> "none"]
    /\ lastCall = [op |-> "init", obs |-> 0, exc |-> None, raised |-> None]
    /\ nCalls = 0

RegInit ==
    /\ source_files = <<>>
    /\ disk = [p \in Paths |-> None]
    /\ now = 0
    /\ lastReg = [path |-> "", args |-> None, file_id |-> 0]
    /\ nRegs = 0

PipeInit ==
    /\ pc = "ingestion"
    /\ excel_files = <<>>
    /\ fileIdx = 0
    /\ observer = 0
    /\ sheet_names = 0
    /\ sheetIdx = 0
    /\ total_rows = 0
    /\ files_processed = 0
    /\ files_failed = 0
    /\ caught = None
    /\ raw_dir = <<>>
    /\ clean_dir = <<>>
    /\ pathIdx = 0
    /\ total_records = 0
    /\ records_loaded = 0
    /\ log = <<>>
    /\ exit_code = None

TrInit ==
    /\ tpc = "glob"
    /\ path = None
    /\ df = None
    /\ df2 = None
    /\ long = None
    /\ cleaned = None

DqInit ==
    /\ vpc = "new"
    /\ vdf = None
    /\ vcall = None
    /\ vobserver = 0
    /\ results = <<>>
    /\ summary = None
    /\ got = None

\* no concurrent register_source_file call is under way, no process has stopped
Init ==
    /\ ObsInit /\ RegInit /\ PipeInit /\ TrInit /\ DqInit
    /\ txns = [r \in Registrants |-> Idle]
    /\ stopped = {}

Next ==
    \/ \E o \in Observers, t \in RunTargets : StartRun(o, t.stage, t.file)
    \/ \E o \in Observers, a \in CompleteArgs : CompleteRun(o, a)
    \/ \E o \in Observers, q \in QualityArgs : LogQualityCheck(o, q)
    \/ \E o \in Observers, l \in LineageArgs : TrackLineage(o, l)
    \/ \E o \in Observers, t \in RunTargets : Enter(o, t.stage, t.file)
    \/ \E o \in Observers, e \in {None} \cup {Some(x) : x \in Exceptions} : Exit(o, e)

Spec == Init /\ [][Next]_vars

\* the calls of the observers whose process is alive, and the stops
NextCrash ==
    \/ \E o \in Observers \ stopped, t \in RunTargets :
          StartRun(o, t.stage, t.file)
    \/ \E o \in Observers \ stopped, a \in CompleteArgs : CompleteRun(o, a)
    \/ \E o \in Observers \ stopped, q \in QualityArgs : LogQualityCheck(o, q)
    \/ \E o \in Observers \ stopped, l \in LineageArgs : TrackLineage(o, l)
    \/ \E o \in Observers \ stopped, t \in RunTargets :
          Enter(o, t.stage, t.file)
    \/ \E o \in Observers \ stopped,
            e \in {None} \cup {Some(x) : x \in Exceptions} : Exit(o, e)
    \/ \E o \in Observers : Stop(o)

SpecCrash == Init /\ [][NextCrash]_vars

NextRegistry ==
    \/ \E p \in Paths, a \in RegArgs : RegisterSourceFile(p, a)
    \/ \E p \in Paths, f \in Files : WriteFile(p, f)

SpecRegistry == Init /\ [][NextRegistry]_vars

NextRace ==
    \/ \E a \in RegArgs : RaceSetup(RacePath, a)
    \/ \E f \in Files : WriteFile(RacePath, f)
    \/ \E r \in Registrants, a \in RegArgs : RaceHash(r, RacePath, a)
    \/ \E r \in Registrants : RaceSelect(r)
    \/ \E r \in Registrants : RaceUpdate(r)
    \/ \E r \in Registrants : RaceInsert(r)

SpecRace == Init /\ [][NextRace]_vars

NextPipeline ==
    \/ IngestionGlob
    \/ IngestionEnter
    \/ IngestionOpen
    \/ IngestionSheet
    \/ IngestionComplete
    \/ IngestionExcept
    \/ IngestionExit
    \/ IngestionFinal
    \/ TransformFile
    \/ TransformReturn
    \/ LoadEnter
    \/ LoadFile
    \/ LoadComplete
    \/ LoadExit
    \/ ReturnSuccess
    \/ ReturnFailure

SpecPipeline == Init /\ [][NextPipeline]_vars

NextTransform ==
    \/ TrReadCsv
    \/ TrDetectHeader
    \/ TrUnpivot
    \/ TrNormalize
    \/ TrNextPath

SpecTransform == Init /\ [][NextTransform]_vars

NextQuality ==
    \/ DqConstruct
    \/ DqValidateAll
    \/ DqCheckIndicatorNames
    \/ DqCheckYearRange
    \/ DqGetSummary
    \/ DqExit

SpecQuality == Init /\ [][NextQuality]_vars

----------------------------------------------------------------------------
\* Properties of the observer (specification Spec).

CallMade == nCalls' = nCalls + 1

\* C2: a quality-check row or a lineage row is only ever inserted for a run that
\* exists and is in status 'running' at the time of the insert: never before
\* start_run, never after complete_run made the run terminal.
C2_WritesOnlyForRunningRun ==
    [][/\ Len(quality') > Len(quality) =>
            LET rid == quality'[Len(quality')].run_id
            IN rid \in DOMAIN runs /\ runs[rid].status = "running"
       /\ Len(lineage') > Len(lineage) =>
            LET rid == lineage'[Len(lineage')].run_id
            IN rid \in DOMAIN runs /\ runs[rid].status = "running"]_vars

\* C3: complete_run on an observer on which start_run was never called raises
\* (ValueError) and leaves the runs table as it was.
C3_CompleteBeforeStartRaises ==
    [][\A o \in Observers :
         (CallMade /\ lastCall'.op = "complete_run" /\ lastCall'.obs = o
            /\ obsRunId[o] = 0)
         => (lastCall'.raised = Some("ValueError") /\ runs' = runs)]_vars

\* a complete_run without a started run has raised while another observer's run
\* is in the table
C3_Witness ==
    /\ lastCall.op = "complete_run"
    /\ obsRunId[lastCall.obs] = 0
    /\ lastCall.raised = Some("ValueError")
    /\ Len(runs) > 0

\* C4: the scoped session starts a run on entry; right after its exit the run is
\* 'failed' with the message and the type of the exception the block raised, or
\* 'success' when the block raised nothing, and the caller sees exactly the
\* exception of the block.
C4_ScopedSession ==
    \A o \in Observers :
        /\ (lastCall.op = "enter" /\ lastCall.obs = o) =>
              /\ obsRunId[o] = Len(runs)
              /\ runs[obsRunId[o]].status = "running"
        /\ (lastCall.op = "exit" /\ lastCall.obs = o) =>
              /\ lastCall.raised = lastCall.exc
              /\ IF lastCall.exc = None
                 THEN runs[obsRunId[o]].status = "success"
                 ELSE /\ runs[obsRunId[o]].status = "failed"
                      /\ runs[obsRunId[o]].error_message = Some(lastCall.exc[1].msg)
                      /\ runs[obsRunId[o]].error_details =
                            Some([exception_type |-> lastCall.exc[1].type])

\* a session whose block raised has exited: run failed, exception at the caller
C4_Witness ==
    /\ lastCall.op = "exit"
    /\ lastCall.exc # None
    /\ lastCall.raised # None
    /\ runs[obsRunId[lastCall.obs]].status = "failed"

\* C8: track_lineage is a pure append: no step changes or removes a lineage row,
\* and each successful call adds exactly one row, carrying the run id of the
\* observer it was called on, also when an identical row is already there.
C8_LineagePureAppend ==
    [][/\ \A i \in 1..Len(lineage) :
             i <= Len(lineage') /\ lineage'[i] = lineage[i]
       /\ (CallMade /\ lastCall'.op = "track_lineage" /\ lastCall'.raised = None) =>
             /\ Len(lineage') = Len(lineage) + 1
             /\ lineage'[Len(lineage')].run_id = obsRunId[lastCall'.obs]]_vars

\* two calls with identical arguments in one run have left two rows
C8_Witness ==
    /\ lastCall.op = "track_lineage"
    /\ lastCall.raised = None
    /\ Len(lineage) = 2
    /\ lineage[1] = lineage[2]

----------------------------------------------------------------------------
\* Properties of the source file registry (specification SpecRegistry).

RegMade == nRegs' = nRegs + 1

\* the descriptive fields of a catalog entry
Descriptive(e) ==
    <<e.file_hash, e.file_size_bytes, e.schema_fingerprint,
      e.sheet_count, e.row_count, e.column_count>>

\* C5: registering a path whose content has the fingerprint stored at its
\* previous registration leaves fingerprint, byte size, schema snapshot and
\* sheet/row/column counts as they were, whatever the arguments of the call;
\* processing_count grows by exactly 1 and last_processed is set anew.
C5_UnchangedIdempotent ==
    [][\A i \in DOMAIN source_files :
         (RegMade /\ lastReg'.path = source_files[i].file_path
            /\ source_files[i].file_hash = ComputeFileHash(disk[lastReg'.path]))
         => /\ Descriptive(source_files'[i]) = Descriptive(source_files[i])
            /\ source_files'[i].processing_count =
                  source_files[i].processing_count + 1
            /\ source_files'[i].last_processed = Some(now')
            /\ source_files'[i].last_processed # source_files[i].last_processed]_vars

\* an unchanged file was registered again with arguments that differ from the
\* counts and the schema the entry holds
C5_Witness ==
    \E i \in DOMAIN source_files :
        /\ lastReg.path = source_files[i].file_path
        /\ source_files[i].processing_count = ProcessingCountDefault + 1
        /\ source_files[i].file_hash = ComputeFileHash(disk[lastReg.path])
        /\ source_files[i].file_hash # "file_not_found"
        /\ lastReg.args.sheet_count # source_files[i].sheet_count
        /\ SchemaColumn(lastReg.args.schema_fingerprint) #
              source_files[i].schema_fingerprint

\* C6: registering a path whose stored fingerprint differs from the fresh one
\* overwrites fingerprint, byte size, schema snapshot and row, column and sheet
\* counts with the values of the call (the schema as the call's JSON text, NULL
\* for an absent or empty schema), adds exactly 1 to processing_count, sets
\* last_processed anew and returns the file id the entry already had.
C6_ChangedOverwrites ==
    [][\A i \in DOMAIN source_files :
         (RegMade /\ lastReg'.path = source_files[i].file_path
            /\ source_files[i].file_hash # ComputeFileHash(disk[lastReg'.path]))
         => /\ source_files'[i].file_hash = ComputeFileHash(disk[lastReg'.path])
            /\ source_files'[i].file_size_bytes = FileSize(disk[lastReg'.path])
            /\ source_files'[i].schema_fingerprint =
                  SchemaColumn(lastReg'.args.schema_fingerprint)
            /\ source_files'[i].row_count = lastReg'.args.row_count
            /\ source_files'[i].column_count = lastReg'.args.column_count
            /\ source_files'[i].sheet_count = lastReg'.args.sheet_count
            /\ source_files'[i].processing_count =
                  source_files[i].processing_count + 1
            /\ source_files'[i].last_processed = Some(now')
            /\ source_files'[i].last_processed # source_files[i].last_processed
            /\ lastReg'.file_id = source_files[i].file_id
            /\ source_files'[i].file_id = source_files[i].file_id]_vars

\* a path whose content changed after its first registration was registered
\* again with a schema: the entry holds the new fingerprint, size and schema
C6_Witness ==
    \E i \in DOMAIN source_files :
        /\ lastReg.path = source_files[i].file_path
        /\ lastReg.file_id = source_files[i].file_id
        /\ source_files[i].processing_count = ProcessingCountDefault + 1
        /\ source_files[i].file_hash = Md5Hex(<<1>>)
        /\ source_files[i].file_size_bytes = Some(1)
        /\ source_files[i].schema_fingerprint # None
        /\ nRegs = 2

\* C7: the catalog holds exactly one entry for every path that was registered:
\* no two entries share a path, an entry is never removed nor given another
\* path or file id, a registration inserts an entry only for a path that has
\* none, and it returns the file id of the one entry of its path.
C7_OneEntryPerPath ==
    /\ [](\A i, j \in DOMAIN source_files :
            source_files[i].file_path = source_files[j].file_path => i = j)
    /\ [](nRegs > 0 =>
            \E i \in DOMAIN source_files :
                /\ source_files[i].file_path = lastReg.path
                /\ source_files[i].file_id = lastReg.file_id)
    /\ [][/\ \A i \in DOMAIN source_files :
                /\ i \in DOMAIN source_files'
                /\ source_files'[i].file_path = source_files[i].file_path
                /\ source_files'[i].file_id = source_files[i].file_id
          /\ Len(source_files') > Len(source_files) =>
                /\ Len(source_files') = Len(source_files) + 1
                /\ RegMade
                /\ \A i \in DOMAIN source_files :
                       source_files[i].file_path # lastReg'.path]_vars

\* both paths are in the catalog and one of them was registered three times
C7_Witness ==
    /\ Len(source_files) = 2
    /\ nRegs = 4
    /\ \E i \in DOMAIN source_files :
           source_files[i].processing_count = ProcessingCountDefault + 2

----------------------------------------------------------------------------
\* Properties of the pipeline (specification SpecPipeline).

\* C1: a run row is written by complete_run exactly once after its creation: a
\* row that has reached a terminal status is never written again.
C1_RunCompletedOnce ==
    [][\A r \in DOMAIN runs :
          runs[r].status \in Terminal => runs'[r] = runs[r]]_vars

\* C9: the transform stage processes every raw input inside an open run, and
\* each unit it has processed has a quality result and a lineage record against
\* a run of the transform stage.
C9_TransformInsideRun ==
    /\ (pc = "transform" /\ pathIdx <= Len(raw_dir)) =>
          \E r \in DOMAIN runs : runs[r].status = "running"
    /\ \A i \in DOMAIN log :
          log[i].stage = "transform" =>
             \E r \in DOMAIN runs :
                /\ runs[r].pipeline_stage = "transform"
                /\ \E q \in DOMAIN quality : quality[q].run_id = r
                /\ \E l \in DOMAIN lineage : lineage[l].run_id = r

Logged(stage, unit) ==
    \E i \in DOMAIN log : log[i].stage = stage /\ log[i].unit = unit

\* C10: a failing unit never aborts its siblings: when process_excel_file has
\* returned every sheet of the workbook was attempted, when the for loop of
\* ingestion main has ended every workbook was attempted, and when transform
\* main has returned every raw CSV was attempted, whatever failed on the way.
C10_SiblingsStillProcessed ==
    /\ pc = "ing_complete" =>
          \A k \in 1..sheet_names : Logged("ingestion", <<fileIdx, k>>)
    /\ pc = "ing_final" =>
          \A f \in 1..Len(excel_files) : Logged("ingestion", <<f>>)
    /\ pc = "load" =>
          \A j \in DOMAIN raw_dir : Logged("transform", raw_dir[j])

\* a workbook failed and a later one was processed, a sheet failed and a later
\* sheet of the same workbook was extracted, a raw CSV failed in the transform
\* and a later one was written
C10_Witness ==
    /\ pc = "load"
    /\ \E i, j \in DOMAIN log :
          /\ i < j
          /\ log[i] = LogEntry("ingestion", <<1>>, "failed")
          /\ log[j] = LogEntry("ingestion", <<2>>, "ok")
    /\ \E i, j \in DOMAIN log :
          /\ i < j
          /\ log[i] = LogEntry("ingestion", <<2, 1>>, "failed")
          /\ log[j] = LogEntry("ingestion", <<2, 2>>, "ok")
    /\ \E i, j \in DOMAIN log :
          /\ i < j
          /\ log[i].stage = "transform" /\ log[i].outcome = "error"
          /\ log[j].stage = "transform" /\ log[j].outcome = "written"

\* C11: when every workbook of the ingestion stage has failed, main raises to
\* its caller and the run record of every workbook is left with status
\* 'failed', a non-empty error message and the exception type in its details.
C11_AllFailedRunsMarkedFailed ==
    (pc = "except" /\ files_failed = Len(excel_files) /\ files_failed > 0) =>
        /\ caught # None
        /\ \A r \in DOMAIN runs :
              runs[r].pipeline_stage = "ingestion" =>
                  /\ runs[r].status = "failed"
                  /\ runs[r].error_message \notin {None, Some("")}
                  /\ runs[r].error_details # None

----------------------------------------------------------------------------
\* Claims about the transform engine.

\* a string that holds both a digit and "/"
PeriodLabelShaped(x) == IsStr(x) /\ HasSlash(x) /\ HasDigit(x)

\* the rows among the first 10 of a frame that hold at least 2 cells of
\* period-label shape
QualifyingRows(d) ==
    {i \in 1..Min(10, Len(d.rows)) :
        Cardinality({j \in DOMAIN d.rows[i] :
                        PeriodLabelShaped(d.rows[i][j])}) >= 2}

FirstOf(S) == CHOOSE i \in S : \A j \in S : i <= j

\* the columns that hold a value in some row of rows, in column order
ColumnsWithValues(d, rows) ==
    Sorted({j \in DOMAIN d.columns : \E i \in DOMAIN rows : rows[i][j] # NaN})

C13_RowZeroIsHeader ==
    (df2 # None /\ QualifyingRows(df[1]) = {}) =>
        LET raw == path[1].lines
            out == df2[1]
            data == Tail(raw)
            keep == ColumnsWithValues(df[1], data)
            cut(row) == [k \in DOMAIN keep |-> row[keep[k]]]
        IN  /\ Len(out.columns) = Len(keep)
            /\ \A k \in DOMAIN keep : out.columns[k] = Strip(raw[1][keep[k]])
            /\ out.rows =
                  SelectSeq([i \in DOMAIN data |-> cut(data[i])],
                            LAMBDA r : \E k \in DOMAIN r : r[k] # NaN)

\* the year columns of a cleaned table, by position: the columns whose name is
\* of period-label shape or all digits, else the columns whose name holds a
\* digit
YearPositions(d) ==
    LET shaped == {j \in DOMAIN d.columns :
                      \/ PeriodLabelShaped(d.columns[j])
                      \/ IsDigit(Strip(d.columns[j]))}
    IN  IF shaped # {} THEN shaped
        ELSE {j \in DOMAIN d.columns : HasDigit(d.columns[j])}

\* C14: before any filtering the unpivot of a cleaned table has exactly
\* (number of rows) x (number of year columns) records, one for each row and
\* year column, whose year_label is the name of that column and whose value is
\* the cell of that row in that column.
C14_UnpivotIsFullCross ==
    long # None =>
        LET d == df2[1]
            Y == Sorted(YearPositions(d))
            m == Len(Y)
        IN  /\ Len(long[1]) = Len(d.rows) * m
            /\ \A i \in DOMAIN d.rows : \A k \in DOMAIN Y :
                  /\ long[1][(i - 1) * m + k].year_label = d.columns[Y[k]]
                  /\ long[1][(i - 1) * m + k].value = d.rows[i][Y[k]]

\* the records of the unpivot whose value cell is present
WithValue(records) == SelectSeq(records, LAMBDA r : r.value # NaN)

\* the value cells the claim names
ThousandsCell == <<"1", ",", "2", "3", "4">>
NotAvailableCell == <<"N", "/", "A">>

\* C15: in post-unpivot normalization a record whose value cell is "1,234" is
\* kept with the numeric value 1234, a record whose value cell is absent or
\* does not coerce ("N/A") is dropped from the cleaned output, and the records
\* dropped by coercion are counted in the enclosing run: a run holds
\* records_rejected equal to their number.
C15_CoercionDropsCounted ==
    cleaned # None =>
        LET present == WithValue(long[1])
            coercible == SelectSeq(present, LAMBDA r : CoerceValue(r.value) # None)
            dropped == Len(present) - Len(cleaned[1])
        IN  /\ CoerceValue(ThousandsCell) = Some(1234)
            /\ CoerceValue(NotAvailableCell) = None
            /\ Len(cleaned[1]) = Len(coercible)
            /\ \A n \in DOMAIN coercible :
                  /\ Some(cleaned[1][n].value) = CoerceValue(coercible[n].value)
                  /\ cleaned[1][n].year_label = coercible[n].year_label
            /\ dropped > 0 =>
                  \E r \in DOMAIN runs :
                      runs[r].records_rejected = Some(dropped)

\* C20: in the unpivot of a cleaned table the identifier columns are exactly
\* the non-year columns, each of them is carried into every output record with
\* the cell of the record's row, and the leftmost column is the sole identifier
\* only when there is no non-year column.
C20_AllNonYearColumnsCarried ==
    (long # None /\ long[1] # <<>>) =>
        LET d == df2[1]
            m == Cardinality(YearPositions(d))
            nonyear == Sorted(DOMAIN d.columns \ YearPositions(d))
            expected == IF nonyear = <<>> THEN <<1>> ELSE nonyear
        IN  \A n \in DOMAIN long[1] :
                /\ Len(long[1][n].ids) = Len(expected)
                /\ \A k \in DOMAIN expected :
                      /\ long[1][n].ids[k].col = d.columns[expected[k]]
                      /\ long[1][n].ids[k].val =
                            d.rows[((n - 1) \div m) + 1][expected[k]]

----------------------------------------------------------------------------
\* Claims about the quality validators.

\* C16: validate_all runs exactly five checks (completeness, validity,
\* consistency, uniqueness, data type, in this order) and the allPassed it
\* returns is true if and only if each of the five reports passed = true,
\* whatever their scores.
C16_AllPassedIffFiveChecksPass ==
    summary # None =>
        LET s == summary[1]
        IN  /\ s.checks_run = 5
            /\ [k \in DOMAIN s.details |-> s.details[k].check] =
                  <<"completeness", "validity", "consistency", "uniqueness",
                    "data_types">>
            /\ s.all_passed <=> \A k \in 1..5 : s.details[k].passed

\* exactly one of the five checks failed, the other four have score 1.0, and
\* allPassed is false
C16_Witness ==
    /\ summary # None
    /\ summary[1].checks_failed = 1
    /\ ~summary[1].all_passed
    /\ \A k \in 1..5 :
          summary[1].details[k].passed =>
              summary[1].details[k].score = FloatOne

\* the critical columns check_completeness is run with
CriticalColumns ==
    IF vcall[1].fn = "validate_health_data" THEN HealthCriticalColumns(vdf[1])
    ELSE IF vcall[1].critical_columns = None THEN vdf[1].columns
    ELSE vcall[1].critical_columns[1]

\* the cells of the critical columns, as (block, column) pairs, that are null
NullCriticalCells ==
    {c \in (DOMAIN vdf[1].blocks) \X Range(CriticalColumns) :
        IsNull(c[2], vdf[1].blocks[c[1]].row[c[2]])}

CriticalCells == (DOMAIN vdf[1].blocks) \X Range(CriticalColumns)

CompletenessScoreReturned == summary[1].details[1].score

ScoreInUnitInterval(x) ==
    ~IsFloatNaN(x) /\ ~FloatLt(x, FloatZero) /\ ~FloatGt(x, FloatOne)

\* C17 as stated: the completeness score lies in [0,1], it is exactly 1.0 when
\* no critical cell is null and exactly 0.0 when every critical cell is null,
\* for every dataset and every list of critical columns.
C17_CompletenessScore_Original ==
    summary # None =>
        /\ ScoreInUnitInterval(CompletenessScoreReturned)
        /\ NullCriticalCells = {} => CompletenessScoreReturned = FloatOne
        /\ NullCriticalCells = CriticalCells =>
              CompletenessScoreReturned = FloatZero

\* C17 amended: the completeness score lies in [0,1]; it is exactly 1.0 when
\* no critical cell is null, which includes a dataset without rows and an
\* empty list of critical columns, and exactly 0.0 when there is at least one
\* critical cell and every critical cell is null.
C17_CompletenessScore ==
    summary # None =>
        /\ ScoreInUnitInterval(CompletenessScoreReturned)
        /\ NullCriticalCells = {} => CompletenessScoreReturned = FloatOne
        /\ (CriticalCells # {} /\ NullCriticalCells = CriticalCells) =>
              CompletenessScoreReturned = FloatZero

\* a frame with rows whose critical cells are all null scored 0.0
C17_Witness ==
    /\ summary # None
    /\ CriticalCells # {}
    /\ NullCriticalCells = CriticalCells
    /\ CompletenessScoreReturned = FloatZero

\* the facts validate_all examines on a frame, by the shape of the frame alone:
\* one per critical column, three of the value column when it is numeric and
\* holds a value, the duplicate rows, the format of year_label when there is
\* such a column, the keys when a key column exists, the type of the value
\* column when there is one, the mixed types
FactsExamined(d, critical) ==
    [k \in DOMAIN critical |-> <<"completeness", critical[k]>>]
    \o (IF /\ HasColumn(d, "value")
           /\ \A i \in DOMAIN d.blocks : d.blocks[i].row.value.kind # "str"
           /\ \E i \in DOMAIN d.blocks : d.blocks[i].row.value.kind # "nan"
        THEN << <<"validity_no_negatives">>, <<"validity_value_range">>,
                <<"validity_no_infinites">> >>
        ELSE <<>>)
    \o << <<"consistency_no_duplicates">> >>
    \o (IF HasColumn(d, "year_label") THEN << <<"consistency_year_format">> >>
        ELSE <<>>)
    \o (IF HasColumn(d, "indicator") \/ HasColumn(d, "year_label")
           \/ HasColumn(d, "location")
        THEN << <<"uniqueness_key_constraint">> >> ELSE <<>>)
    \o (IF HasColumn(d, "value") THEN << <<"type_value_is_numeric">> >>
        ELSE <<>>)
    \o << <<"type_no_mixed_types">> >>

\* C18: every fact a composite check examines is persisted as its own
\* QualityCheckResult attached to the active run, whether or not the facts
\* before it, or the composite checks before it, passed: after validate_all on
\* a validator with an observer, the results persisted for the run are, in
\* order, exactly the facts examined.
C18_EveryFactPersisted ==
    (summary # None /\ vobserver # 0) =>
        LET facts == FactsExamined(vdf[1], CriticalColumns)
        IN  /\ Len(quality) >= Len(facts)
            /\ \A k \in DOMAIN facts :
                  /\ quality[k].check_name = facts[k]
                  /\ quality[k].run_id = vobserver
            /\ vcall[1].fn = "validate_all" => Len(quality) = Len(facts)
            /\ vpc # "closed" => runs[vobserver].status = "running"

\* the first fact of check_validity failed, so did the composite checks
\* validity and consistency, and the facts after them are persisted
C18_Witness ==
    /\ summary # None
    /\ vobserver # 0
    /\ ~summary[1].details[2].passed
    /\ ~summary[1].details[3].passed
    /\ \E i, j, k \in DOMAIN quality :
          /\ i < j /\ j < k
          /\ quality[i].check_name = <<"validity_no_negatives">>
          /\ ~quality[i].passed
          /\ quality[j].check_name = <<"validity_no_infinites">>
          /\ quality[k].check_name = <<"type_no_mixed_types">>

\* the results that validate_health_data persists for a frame
ResultsPersistedFor(d) ==
    Range(ValidateAll(d, Some(HealthCriticalColumns(d))).logged)
    \cup Range(CheckIndicatorNames(d)) \cup Range(CheckYearRange(d))

\* the results persisted by the other runs that validated a frame of one block
ResultsOfOtherRuns ==
    UNION {ResultsPersistedFor(d) : d \in {f \in Frames : Len(f.blocks) = 1}}

\* C19: the passed flag stored with a QualityCheckResult is a function of the
\* stored metric_value and threshold_value of that check: no two persisted
\* results of the same check name have equal metric_value and threshold_value
\* and different passed flags.
C19_PassedIsFunctionOfMetric ==
    \A k \in DOMAIN quality : \A q \in ResultsOfOtherRuns :
        (/\ q.check_name = quality[k].check_name
         /\ q.metric_value = quality[k].metric_value
         /\ q.threshold_value = quality[k].threshold_value)
            => q.passed = quality[k].passed

\* the names assigned to the columns when a header row was detected, line 50
AssignedNames == NewCols(df[1].rows[HeaderRow(df[1])])

\* C21: after a header row has been detected and assigned, the column names
\* of the table are pairwise distinct, whatever the header row holds: the
\* names generated for repeats and for empty cells never coincide with the
\* name of another column.
C21_ColumnNamesDistinct ==
    (df2 # None /\ HeaderRow(df[1]) > 0) =>
        \A i, j \in DOMAIN AssignedNames :
            i # j => AssignedNames[i] # AssignedNames[j]

\* the rows of the frame that repeat an earlier row
RepeatedRows ==
    FrameLen(vdf[1])
    - Cardinality({[c \in Range(vdf[1].columns) |-> vdf[1].blocks[i].row[c]] :
                      i \in DOMAIN vdf[1].blocks})

\* the non-null year_label values, and those of period-label shape
YearLabels ==
    CountRows(vdf[1], {r \in FrameRows : r.year_label # NaN})

\* the period label of the check: four digits, "/", two digits ("2016/17")
YearSpanShaped(x) ==
    /\ Len(x) = 7
    /\ x[5] = "/"
    /\ \A i \in {1, 2, 3, 4, 6, 7} : x[i] \in Digits

ShapedYearLabels ==
    CountRows(vdf[1], {r \in FrameRows :
                          r.year_label # NaN /\ YearSpanShaped(r.year_label)})

AtLeast95PercentShaped == ShapedYearLabels * 100 >= 95 * YearLabels

\* C22: the consistency check passes if and only if the rate of duplicated
\* full rows is below 1% and, when a year_label column exists, at least 95% of
\* its non-null values match the period-label shape; the year-format sub-check
\* persisted for the run passes exactly when at least 95% match, so a dataset
\* in which exactly 95% of the year_label values match passes that sub-check.
C22_ConsistencyThresholds ==
    summary # None =>
        /\ summary[1].details[3].passed
              <=> /\ RepeatedRows * 100 < FrameLen(vdf[1])
                  /\ HasColumn(vdf[1], "year_label") => AtLeast95PercentShaped
        /\ \A k \in DOMAIN quality :
              (/\ quality[k].run_id = vobserver
               /\ quality[k].check_name = <<"consistency_year_format">>)
                  => (quality[k].passed <=> AtLeast95PercentShaped)

----------------------------------------------------------------------------
\* Claims about the identity of the persisted records.

\* C23: within one run no two persisted QualityCheckResult records share the
\* same check name: (run id, check name) identifies a quality result, in every
\* run of the ingestion and load stages over any number of sheets and files.
C23_QualityIdentity ==
    \A i, j \in DOMAIN quality :
        (/\ i # j
         /\ quality[i].run_id = quality[j].run_id)
            => quality[i].check_name # quality[j].check_name

\* the identity of a FieldLineageRecord
LineageIdentity(l) ==
    <<l.run_id, l.target_table, l.target_column, l.source_file, l.source_column>>

\* C24: no two persisted lineage records share the same (run id, target
\* table, target column, source file, source column), in every ingestion run
\* over a workbook with any number of sheets and every load run over any
\* number of files.
C24_LineageIdentity ==
    \A i, j \in DOMAIN lineage :
        (/\ i # j
         /\ lineage[i].run_id = lineage[j].run_id
         /\ lineage[i].target_table = lineage[j].target_table)
            => LineageIdentity(lineage[i]) # LineageIdentity(lineage[j])

----------------------------------------------------------------------------
\* Claims about concurrent registrations (specification SpecRace).

\* both concurrent calls have returned or raised
RaceOver == \A r \in Registrants : txns[r].pc \in {"returned", "raised"}

\* the catalog entries of the path
EntriesOf(p) == {i \in DOMAIN source_files : source_files[i].file_path = p}

\* the call wrote descriptive fields (it inserted, or it found another hash)
WroteFields(r) ==
    /\ txns[r].pc = "returned"
    /\ \/ txns[r].existing = None
       \/ txns[r].existing[1].file_hash # txns[r].file_hash

\* the descriptive fields the call was to write
FieldsOf(r) ==
    <<txns[r].file_hash, txns[r].file_size,
      SchemaColumn(txns[r].args[1].schema_fingerprint),
      txns[r].args[1].sheet_count, txns[r].args[1].row_count,
      txns[r].args[1].column_count>>

\* the processing count of the path before the concurrent calls
CountBefore(r) ==
    IF txns[r].before = None THEN 0 ELSE txns[r].before[1].processing_count

\* C25: when two runs register the same path concurrently, the lookup and
\* the write of each interleaved without locking, the outcome is
\* last-writer-wins: the catalog holds a single entry for the path, its
\* descriptive fields are those written by one of the two registrations
\* (those it had when neither wrote any), and processing_count reflects both
\* registrations.
C25_LastWriterWins ==
    RaceOver =>
        /\ Cardinality(EntriesOf(RacePath)) = 1
        /\ \A i \in EntriesOf(RacePath) :
              /\ \/ \E r \in Registrants :
                       WroteFields(r) /\ Descriptive(source_files[i]) = FieldsOf(r)
                 \/ /\ \A r \in Registrants :
                          /\ ~WroteFields(r)
                          /\ txns[r].before # None
                          /\ Descriptive(source_files[i])
                                = Descriptive(txns[r].before[1])
              /\ \A r \in Registrants :
                    source_files[i].processing_count = CountBefore(r) + 2

----------------------------------------------------------------------------
\* Claims about a process that stops (specification SpecCrash).

\* the records of a table that are attached to the run
Attached(rows, rid) == SelectSeq(rows, LAMBDA row : row.run_id = rid)

\* the observer's process has stopped before complete_run: its run is running
StoppedMidRun(o) ==
    /\ o \in stopped
    /\ obsRunId[o] # 0
    /\ runs[obsRunId[o]].status = "running"

\* C26: each check result, lineage fact and run-state transition is persisted
\* in its own all-or-nothing transaction and nothing spans the run: a call
\* that returns has added its one record, a stop undoes nothing, and when the
\* process has stopped after k writes of a run and before complete_run, those
\* k records stay persisted and attached to the run, unchanged and with no
\* other, and the run stays 'running' in every later state.
C26_StopKeepsPartialHistory ==
    [][/\ stopped' # stopped =>
             runs' = runs /\ quality' = quality /\ lineage' = lineage
       /\ (CallMade /\ lastCall'.raised = None
             /\ lastCall'.op = "log_quality_check") =>
             /\ Attached(quality', obsRunId[lastCall'.obs])
                   = Append(Attached(quality, obsRunId[lastCall'.obs]),
                            quality'[Len(quality')])
             /\ runs' = runs /\ lineage' = lineage
       /\ (CallMade /\ lastCall'.raised = None
             /\ lastCall'.op = "track_lineage") =>
             /\ Attached(lineage', obsRunId[lastCall'.obs])
                   = Append(Attached(lineage, obsRunId[lastCall'.obs]),
                            lineage'[Len(lineage')])
             /\ runs' = runs /\ quality' = quality
       /\ \A o \in Observers :
             StoppedMidRun(o) =>
                /\ runs'[obsRunId[o]] = runs[obsRunId[o]]
                /\ obsRunId'[o] = obsRunId[o]
                /\ Attached(quality', obsRunId[o]) = Attached(quality, obsRunId[o])
                /\ Attached(lineage', obsRunId[o]) = Attached(lineage, obsRunId[o])
      ]_vars

\* a process stopped after a check result and a lineage fact of its run, and
\* since then the other observer has started and completed a run of its own
C26_Witness ==
    \E o \in Observers :
        /\ StoppedMidRun(o)
        /\ Attached(quality, obsRunId[o]) # <<>>
        /\ lastCall.op = "complete_run"
        /\ lastCall.obs # o
        /\ lastCall.raised = None
        /\ obsRunId[lastCall.obs] # obsRunId[o]
        /\ runs[obsRunId[lastCall.obs]].status \in Terminal

----------------------------------------------------------------------------
\* Further claims about the pipeline (specification SpecPipeline).

\* the scoped session of workbook f has exited
SessionExited(f) ==
    /\ f \in DOMAIN excel_files
    /\ \/ f < fileIdx
       \/ pc \notin {"ingestion", "ing_enter", "ing_open", "ing_sheet",
                     "ing_complete", "ing_except", "ing_exit"}

\* the sheets of workbook f that failed, and those that were processed
FailedSheets(f) ==
    {k \in 1..MaxSheets + 1 :
        \E i \in DOMAIN log : log[i] = LogEntry("ingestion", <<f, k>>, "failed")}

ProcessedSheets(f) ==
    {k \in 1..MaxSheets + 1 :
        \E i \in DOMAIN log : log[i] = LogEntry("ingestion", <<f, k>>, "ok")}

RECURSIVE RowsOf(_)
RowsOf(sheets) ==
    IF sheets = {} THEN 0
    ELSE LET k == CHOOSE k \in sheets : TRUE
         IN  SheetRows(k) + RowsOf(sheets \ {k})

\* C27: a run in which only part of the units succeeded ends with status
\* 'success' and a loaded count equal to the number of records of the units
\* that succeeded: after the scoped session of a workbook has exited, the run
\* record of a workbook with some failed sheets has status 'success' and
\* records_input, records_processed and records_loaded equal to the total
\* rows of the sheets that were processed.
C27_PartialSuccessCounts ==
    \A f \in DOMAIN excel_files :
        (/\ SessionExited(f)
         /\ FailedSheets(f) # {}
         /\ \E i \in DOMAIN log : log[i] = LogEntry("ingestion", <<f>>, "ok"))
            => /\ runs[f].source_file = Some(excel_files[f])
               /\ runs[f].status = "success"
               /\ runs[f].records_input = Some(RowsOf(ProcessedSheets(f)))
               /\ runs[f].records_processed = Some(RowsOf(ProcessedSheets(f)))
               /\ runs[f].records_loaded = Some(RowsOf(ProcessedSheets(f)))

\* where run_full_pipeline stands: in stage 1, 2 or 3, after stage 3 (4), in
\* its except clause (5), returned (6)
StageRank(at) ==
    CASE at \in {"ingestion", "ing_enter", "ing_open", "ing_sheet",
                 "ing_complete", "ing_except", "ing_exit", "ing_final"} -> 1
      [] at = "transform" -> 2
      [] at \in {"load", "ld_file", "ld_exit"} -> 3
      [] at = "completed" -> 4
      [] at = "except" -> 5
      [] at = "done" -> 6

\* C28: the orchestrator runs the stages strictly in the order Ingestion,
\* Transform, Load: a stage starts only after the stage before it has returned
\* without raising; when a stage raises no later stage is started and
\* run_full_pipeline returns 1; it returns 0 only when all three stages have
\* completed, none of them having raised.
C28_StagesInOrder ==
    [][/\ StageRank(pc') # StageRank(pc) =>
             \/ /\ StageRank(pc) \in {1, 2, 3}
                /\ StageRank(pc') = StageRank(pc) + 1
                /\ caught' = None
             \/ /\ StageRank(pc) \in {1, 2, 3}
                /\ StageRank(pc') = 5
                /\ caught' # None
             \/ /\ StageRank(pc) = 5
                /\ StageRank(pc') = 6
                /\ exit_code' = Some(1)
             \/ /\ StageRank(pc) = 4
                /\ StageRank(pc') = 6
                /\ exit_code' = Some(0)
       /\ exit_code' = Some(0) =>
             ~\E i \in DOMAIN log' :
                 log'[i].stage = "load" /\ log'[i].outcome = "failed"
       /\ StageRank(pc') < 6 => exit_code' = None
      ]_vars

\* ingestion and transform returned, the load stage raised on its second
\* file, and run_full_pipeline returned 1
C28_Witness ==
    /\ pc = "done"
    /\ exit_code = Some(1)
    /\ \E i, j \in DOMAIN log :
          /\ i < j
          /\ log[i].stage = "load" /\ log[i].outcome = "ok"
          /\ log[j].stage = "load" /\ log[j].outcome = "failed"

----------------------------------------------------------------------------
\* Further claims about the run tracker (specification Spec).

\* every run in the table was created by the observer: no other observer has
\* ever started one
OnlyCreator(o) == \A other \in Observers \ {o} : obsRunId[other] = 0

\* C29: an observer never leaves a run orphaned: after every sequence of
\* start_run and complete_run calls on one observer whose last call is a
\* complete_run, every run record the observer created is in a terminal
\* status; a second start_run while a run is still active does not leave the
\* earlier run 'running'.
C29_NoOrphanedRun ==
    \A o \in Observers :
        (/\ lastCall.op = "complete_run"
         /\ lastCall.obs = o
         /\ lastCall.raised = None
         /\ OnlyCreator(o))
            => \A i \in DOMAIN runs : runs[i].status \in Terminal

----------------------------------------------------------------------------
\* Further claims about the quality validators (specification SpecQuality).

\* C30: on a fresh validator, get_summary called right after one validate_all
\* agrees with the summary validate_all returned: the same checks_run (5),
\* checks_passed, checks_failed, all_passed and overall_score, for every
\* dataset, also one with none of the candidate key columns, for which the
\* uniqueness check is skipped.
C30_GetSummaryAgrees ==
    got # None =>
        /\ got[1].checks_run = 5
        /\ got[1].checks_run = summary[1].checks_run
        /\ got[1].checks_passed = summary[1].checks_passed
        /\ got[1].checks_failed = summary[1].checks_failed
        /\ got[1].all_passed = summary[1].all_passed
        /\ got[1].overall_score = summary[1].overall_score

====
